---- MODULE Spec2Model ----
(***************************************************************************)
(* A model of optbuilder's mutationBuilder                                 *)
(* (pkg/sql/opt/optbuilder/mutation_builder.go): the builder that turns an *)
(* INSERT, UPDATE, UPSERT or DELETE statement into a mutation operator     *)
(* with its column lists and its foreign-key check queries.                *)
(*                                                                         *)
(* The state is the mutationBuilder struct of one statement.  Each action  *)
(* is one method call on it.  Ordinals are 0-based as in the source, and   *)
(* -1 stands for "no scope column" as in the source; outScope is a         *)
(* sequence, so the scope column with ordinal o is outScope[o + 1].        *)
(***************************************************************************)
EXTENDS Integers, Sequences, FiniteSets, TLC

\* Bounds of the model.
\* MaxCols: public columns of the target table.
MaxCols == 2
\* MaxMutationCols: write-only plus delete-only columns of the target table.
MaxMutationCols == 2
\* MaxChecks: check constraints of the target table.
MaxChecks == 1
\* MaxTargets: columns named by one target list of the statement.
MaxTargets == 2
\* MaxOutbound, MaxInbound: foreign keys of the target table.
MaxOutbound == 1
MaxInbound == 2
\* The buffered input of an executed statement holds at most MaxRows rows.
MaxRows == 2

\* The scopeOrdinal that stands for "no scope column" (init fills the role
\* arrays with it).
Unset == -1

Range(s) == {s[i] : i \in DOMAIN s}
NonEmptySeqsUpTo(S, n) == UNION {[1..k -> S] : k \in 1..n}
PrefixKeys(n) == {[i \in 1..k |-> i - 1] : k \in 1..n}

---------------------------------------------------------------------------
\* The catalog: the target table (cat.Table) the builder is given.

PlainCol ==
    [computed |-> FALSE, hasDefault |-> FALSE, nullable |-> TRUE,
     typ |-> "int", precision |-> 0, width |-> 0, hidden |-> FALSE]
NotNullCol ==
    [computed |-> FALSE, hasDefault |-> TRUE, nullable |-> FALSE,
     typ |-> "int", precision |-> 0, width |-> 0, hidden |-> FALSE]
ComputedCol ==
    [computed |-> TRUE, hasDefault |-> FALSE, nullable |-> TRUE,
     typ |-> "int", precision |-> 0, width |-> 0, hidden |-> FALSE]
DecimalCol ==
    [computed |-> FALSE, hasDefault |-> FALSE, nullable |-> TRUE,
     typ |-> "decimal", precision |-> 10, width |-> 2, hidden |-> FALSE]
ColKinds == {PlainCol, NotNullCol, ComputedCol, DecimalCol}
\* The hidden key column (rowid) of a table declared without a primary key.
HiddenKeyCol == [NotNullCol EXCEPT !.hidden = TRUE]

MatchMethods == {"SIMPLE", "FULL"}
Actions == {"NoAction", "Restrict", "SetNull", "SetDefault", "Cascade"}
\* The (ON DELETE, ON UPDATE) actions of the inbound keys of the model: the
\* two actions equal, or one of them NO ACTION and the other CASCADE.
ActionPairs ==
    {<<a, a>> : a \in Actions} \cup {<<"NoAction", "Cascade">>, <<"Cascade", "NoAction">>}

\* The key columns of the foreign keys of a table of n public columns: a
\* prefix of the columns, or the last column alone.
KeyChoices(n) == PrefixKeys(n) \cup {<<n - 1>>}

\* adding: the catalog reports the other table as being added
\* (ResolveDataSourceByID returns isAdding with an error).
PlainOutbound == [cols |-> <<0>>, match |-> "SIMPLE", adding |-> FALSE]
PlainInbound ==
    [cols |-> <<0>>, deleteAction |-> "NoAction", updateAction |-> "NoAction",
     adding |-> FALSE]
OutFKs(n) ==
    {[cols |-> k, match |-> m, adding |-> FALSE] : k \in KeyChoices(n), m \in MatchMethods}
    \cup {[cols |-> <<0>>, match |-> "SIMPLE", adding |-> TRUE]}
InFKs(n) ==
    {[cols |-> k, deleteAction |-> p[1], updateAction |-> p[2], adding |-> FALSE] :
        k \in KeyChoices(n), p \in ActionPairs}
    \cup {[cols |-> <<0>>, deleteAction |-> a, updateAction |-> a, adding |-> TRUE] :
        a \in {"NoAction", "Cascade"}}
\* The lists of 1..n keys of R or F with at most one key outside F.
KeyLists(R, F, n) ==
    {s \in NonEmptySeqsUpTo(R \cup F, n) :
        Cardinality({i \in DOMAIN s : s[i] \notin F}) <= 1}

\* A table: its public columns, then (m + 1) \div 2 write-only and m \div 2
\* delete-only mutation columns, c check constraints and its foreign keys.
\* The primary index is on column 0.
MakeTable(pub, m, c, out, in) ==
    [cols |-> pub \o [i \in 1..m |-> PlainCol],
     nCols |-> Len(pub),
     nWritable |-> Len(pub) + ((m + 1) \div 2),
     checkCount |-> c,
     outbound |-> out,
     inbound |-> in]

\* Column layouts: plain columns and at most one column of another kind.
Layouts(kinds) ==
    UNION {{[i \in 1..n |-> IF i = p THEN k ELSE PlainCol] : p \in 1..n, k \in kinds} :
           n \in 1..MaxCols}
\* Layouts of MaxCols columns: all plain, all NOT NULL, or only the first NOT NULL.
PlainLayout == [i \in 1..MaxCols |-> PlainCol]
NullLayouts ==
    {PlainLayout, [i \in 1..MaxCols |-> NotNullCol],
     [i \in 1..MaxCols |-> IF i = 1 THEN NotNullCol ELSE PlainCol]}

\* Tables that vary the columns and bear no foreign key.
ColumnTables ==
    {MakeTable(pub, m, c, <<>>, <<>>) :
        pub \in Layouts(ColKinds), m \in {0, MaxMutationCols}, c \in {0, MaxChecks}}
\* Tables that vary the outbound foreign keys.
OutboundTables ==
    {MakeTable(pub, 0, 0, out, in) :
        pub \in NullLayouts,
        out \in {<<>>} \cup KeyLists(OutFKs(MaxCols), {PlainOutbound}, MaxOutbound),
        in \in {<<>>, <<PlainInbound>>}}
\* Tables that vary the inbound foreign keys.
InboundTables ==
    {MakeTable(pub, 0, 0, out, in) :
        pub \in {PlainLayout},
        out \in {<<>>},
        in \in KeyLists(InFKs(MaxCols), {PlainInbound}, MaxInbound)}
\* The table whose primary index is on a hidden column.
HiddenKeyTables ==
    {MakeTable([i \in 1..MaxCols |-> IF i = 1 THEN HiddenKeyCol ELSE PlainCol],
               0, 0, <<>>, <<>>)}
\* The table with an outbound key and two inbound keys on column 0, the
\* second inbound key with ON UPDATE CASCADE.
CascadeInbound ==
    [cols |-> <<0>>, deleteAction |-> "NoAction", updateAction |-> "Cascade",
     adding |-> FALSE]
MixedTables ==
    {MakeTable(PlainLayout, 0, 0, <<PlainOutbound>>, <<PlainInbound, CascadeInbound>>)}
Tables ==
    ColumnTables \cup OutboundTables \cup InboundTables \cup HiddenKeyTables
    \cup MixedTables

OpNames == {"insert", "update", "upsert", "delete"}

---------------------------------------------------------------------------
VARIABLES
    opName,         \* mb.opName
    tab,            \* mb.tab
    pc,             \* the next method the statement's builder calls
    err,            \* the error the build was aborted with, or "none"
    outScope,       \* mb.outScope.cols
    nextColID,      \* the next column ID the metadata hands out
    targetColList,  \* mb.targetColList
    targetColSet,   \* mb.targetColSet
    insertOrds,     \* mb.insertOrds
    fetchOrds,      \* mb.fetchOrds
    updateOrds,     \* mb.updateOrds
    upsertOrds,     \* mb.upsertOrds
    checkOrds,      \* mb.checkOrds
    canaryColID,    \* mb.canaryColID
    extraAccessibleCols, \* mb.extraAccessibleCols
    distinctOn,     \* grouping columns of the DistinctOn over the input
    optimizerFKs,   \* SessionData.OptimizerFKs as buildFKChecks* read it
    checks,         \* mb.checks
    fkFallback,     \* mb.fkFallback
    withID,         \* mb.withID
    private,        \* the MutationPrivate makeMutationPrivate returned
    resolved,       \* the last result of mapToReturnScopeOrd, by column
    inputRows,      \* execution: the buffered rows of the mutation's input
    checkedRows,    \* execution: per check, the rows its join receives
    inRows,         \* the input rows (tree.Select) given to replaceDefaultExprs
    outRows,        \* the rows replaceDefaultExprs returned
    projections,    \* the Project operators addSynthesizedCols, roundDecimalValues
                    \* and addCheckConstraintCols constructed
    addCol,         \* the table columns the addCol callback of the last
                    \* addSynthesizedCols call approves
    otherRows,      \* execution: per check, the rows of the scan of the other table
    reportedRows    \* execution: per check, the rows its join returns

vars ==
    <<opName, tab, pc, err, outScope, nextColID, targetColList, targetColSet,
      insertOrds, fetchOrds, updateOrds, upsertOrds, checkOrds, canaryColID,
      extraAccessibleCols, distinctOn, optimizerFKs, checks, fkFallback,
      withID, private, resolved, inputRows, checkedRows, inRows, outRows,
      projections, addCol, otherRows, reportedRows>>

roleVars == <<insertOrds, fetchOrds, updateOrds, upsertOrds, checkOrds>>
targetVars == <<targetColList, targetColSet>>
fkVars == <<optimizerFKs, checks, fkFallback, withID>>
catalogVars == <<opName, tab>>
valuesVars == <<inRows, outRows>>
layerVars == <<projections, addCol>>
joinVars == <<otherRows, reportedRows>>
execVars == <<inputRows, checkedRows, valuesVars, layerVars, joinVars>>

---------------------------------------------------------------------------
\* Catalog accessors.

ColumnCount == tab.nCols
WritableColumnCount == tab.nWritable
DeletableColumnCount == Len(tab.cols)
CheckCount == tab.checkCount
OutboundForeignKeyCount == Len(tab.outbound)
InboundForeignKeyCount == Len(tab.inbound)
Column(ord) == tab.cols[ord + 1]
IsMutationColumn(ord) == ord >= ColumnCount
\* mb.tabID.ColumnID(ord): the table is the first one added to the metadata.
ColumnID(ord) == ord + 1
ColumnOrdinal(colID) == colID - 1
TabOrds == 0..(DeletableColumnCount - 1)

NoName == <<>>
ColName(ord) == <<"col", ord>>
CheckAlias(i) == <<"check", i + 1>>
FromName == <<"from", 0>>

\* cat.FindTableColumnByName; the name DeletableColumnCount is no column's.
Names == 0..DeletableColumnCount
FindTableColumnByName(name) == IF name \in TabOrds THEN name ELSE Unset

NoPrivate == [built |-> FALSE]

---------------------------------------------------------------------------
\* The state with the role arrays left at the zero value of their slice.
InitBuilderZeroed(op, t, flag) ==
    /\ opName = op
    /\ tab = t
    /\ pc = IF op \in {"insert", "upsert"} THEN "targets" ELSE "input"
    /\ err = "none"
    /\ outScope = <<>>
    /\ nextColID = Len(t.cols) + 1
    /\ targetColList = <<>>
    /\ targetColSet = {}
    /\ insertOrds = [i \in 0..(Len(t.cols) - 1) |-> 0]
    /\ fetchOrds = [i \in 0..(Len(t.cols) - 1) |-> 0]
    /\ updateOrds = [i \in 0..(Len(t.cols) - 1) |-> 0]
    /\ upsertOrds = [i \in 0..(Len(t.cols) - 1) |-> 0]
    /\ checkOrds = [i \in 0..(t.checkCount - 1) |-> Unset]
    /\ canaryColID = 0
    /\ extraAccessibleCols = <<>>
    /\ distinctOn = {}
    /\ optimizerFKs = flag
    /\ checks = <<>>
    /\ fkFallback = FALSE
    /\ withID = 0
    /\ private = NoPrivate
    /\ resolved = <<>>
    /\ inputRows = {}
    /\ checkedRows = <<>>
    /\ inRows = <<>>
    /\ outRows = <<>>
    /\ projections = 0
    /\ addCol = {}
    /\ otherRows = <<>>
    /\ reportedRows = <<>>

\* The state mb.init leaves.

InitBuilder(op, t, flag) ==
    /\ opName = op
    /\ tab = t
    /\ pc = IF op \in {"insert", "upsert"} THEN "targets" ELSE "input"
    /\ err = "none"
    /\ outScope = <<>>
    /\ nextColID = Len(t.cols) + 1
    /\ targetColList = <<>>
    /\ targetColSet = {}
    /\ insertOrds = [i \in 0..(Len(t.cols) - 1) |-> Unset]
    /\ fetchOrds = [i \in 0..(Len(t.cols) - 1) |-> Unset]
    /\ updateOrds = [i \in 0..(Len(t.cols) - 1) |-> Unset]
    /\ upsertOrds = [i \in 0..(Len(t.cols) - 1) |-> Unset]
    /\ checkOrds = [i \in 0..(t.checkCount - 1) |-> Unset]
    /\ canaryColID = 0
    /\ extraAccessibleCols = <<>>
    /\ distinctOn = {}
    /\ optimizerFKs = flag
    /\ checks = <<>>
    /\ fkFallback = FALSE
    /\ withID = 0
    /\ private = NoPrivate
    /\ resolved = <<>>
    /\ inputRows = {}
    /\ checkedRows = <<>>
    /\ inRows = <<>>
    /\ outRows = <<>>
    /\ projections = 0
    /\ addCol = {}
    /\ otherRows = <<>>
    /\ reportedRows = <<>>

\* The optimizer_foreign_keys session flag: off only for tables without
\* mutation columns and check constraints and with at most one key a side.
SessionFlags(t) ==
    IF t.checkCount = 0 /\ Len(t.cols) = t.nCols
       /\ Len(t.outbound) <= 1 /\ Len(t.inbound) <= 1
    THEN BOOLEAN ELSE {TRUE}

Init == \E op \in OpNames, t \in Tables : \E flag \in SessionFlags(t) : InitBuilder(op, t, flag)

---------------------------------------------------------------------------
\* Scope columns and the role arrays.

ScopeCol(id, name, kind, notNull) ==
    [id |-> id, name |-> name, kind |-> kind, notNull |-> notNull, rounds |-> 0,
     hidden |-> FALSE, wraps |-> <<>>]

scopeOrdToColID(ord) == IF ord = Unset THEN 0 ELSE outScope[ord + 1].id

insertColID(tabOrd) == scopeOrdToColID(insertOrds[tabOrd])

\* The priority without the insert role.
mapToReturnScopeOrdNoInsert(tabOrd) ==
    IF upsertOrds[tabOrd] # Unset THEN upsertOrds[tabOrd]
    ELSE IF updateOrds[tabOrd] # Unset THEN updateOrds[tabOrd]
    ELSE IF fetchOrds[tabOrd] # Unset THEN fetchOrds[tabOrd]
    ELSE Unset

\* The priority with fetch ahead of update.
mapToReturnScopeOrdFetchFirst(tabOrd) ==
    IF upsertOrds[tabOrd] # Unset THEN upsertOrds[tabOrd]
    ELSE IF fetchOrds[tabOrd] # Unset THEN fetchOrds[tabOrd]
    ELSE IF updateOrds[tabOrd] # Unset THEN updateOrds[tabOrd]
    ELSE IF insertOrds[tabOrd] # Unset THEN insertOrds[tabOrd]
    ELSE Unset

mapToReturnScopeOrd(tabOrd) ==
    IF upsertOrds[tabOrd] # Unset THEN upsertOrds[tabOrd]
    ELSE IF updateOrds[tabOrd] # Unset THEN updateOrds[tabOrd]
    ELSE IF fetchOrds[tabOrd] # Unset THEN fetchOrds[tabOrd]
    ELSE IF insertOrds[tabOrd] # Unset THEN insertOrds[tabOrd]
    ELSE Unset

\* The columns of a scan of the target table, mutation columns included.
ScanCols(firstID) ==
    [i \in 1..DeletableColumnCount |->
        [ScopeCol(firstID + i - 1, ColName(i - 1), "scan", ~Column(i - 1).nullable)
            EXCEPT !.hidden = Column(i - 1).hidden]]

Abort(e) ==
    /\ pc' = "error"
    /\ err' = e
    /\ UNCHANGED <<catalogVars, outScope, nextColID, targetVars, roleVars,
                   canaryColID, extraAccessibleCols, distinctOn, fkVars,
                   private, resolved, execVars>>

---------------------------------------------------------------------------
\* Target columns.

\* addTargetCol without the test for a column named twice.
addTargetColNoDuplicateCheck(ord) ==
    IF IsMutationColumn(ord)
    THEN [err |-> "BackfillError", list |-> targetColList, set |-> targetColSet]
    ELSE IF Column(ord).computed
    THEN [err |-> "CannotWriteToComputedCol", list |-> targetColList,
          set |-> targetColSet]
    ELSE [err |-> "none", list |-> Append(targetColList, ColumnID(ord)),
          set |-> targetColSet \cup {ColumnID(ord)}]

\* addTargetCol with the test for a computed column after the append.
addTargetColComputedAfterAppend(ord) ==
    IF IsMutationColumn(ord)
    THEN [err |-> "BackfillError", list |-> targetColList, set |-> targetColSet]
    ELSE IF ColumnID(ord) \in targetColSet
    THEN [err |-> "MultipleAssignments", list |-> targetColList,
          set |-> targetColSet]
    ELSE [err |-> IF Column(ord).computed THEN "CannotWriteToComputedCol" ELSE "none",
          list |-> Append(targetColList, ColumnID(ord)),
          set |-> targetColSet \cup {ColumnID(ord)}]

\* addTargetCol: the error it panics with, or "none", and the target list
\* and set it leaves.
addTargetCol(ord) ==
    IF IsMutationColumn(ord)
    THEN [err |-> "BackfillError", list |-> targetColList, set |-> targetColSet]
    ELSE IF Column(ord).computed
    THEN [err |-> "CannotWriteToComputedCol", list |-> targetColList,
          set |-> targetColSet]
    ELSE IF ColumnID(ord) \in targetColSet
    THEN [err |-> "MultipleAssignments", list |-> targetColList,
          set |-> targetColSet]
    ELSE [err |-> "none", list |-> Append(targetColList, ColumnID(ord)),
          set |-> targetColSet \cup {ColumnID(ord)}]

\* One iteration of addTargetColsByName's loop, for the next name of the
\* statement's column list (INSERT) or SET list (UPDATE, ON CONFLICT).
AddTargetColsByName ==
    /\ pc \in {"targets", "updTargets"}
    /\ Len(targetColList) < MaxTargets
    /\ \E name \in Names :
        LET ord == FindTableColumnByName(name) IN
        IF ord = Unset
        THEN Abort("UndefinedColumn")
        ELSE LET r == addTargetCol(ord) IN
             /\ targetColList' = r.list
             /\ targetColSet' = r.set
             /\ err' = r.err
             /\ pc' = IF r.err = "none" THEN pc ELSE "error"
             /\ UNCHANGED <<catalogVars, outScope, nextColID, roleVars,
                            canaryColID, extraAccessibleCols, distinctOn,
                            fkVars, private, resolved, execVars>>

---------------------------------------------------------------------------
\* Input of INSERT and UPSERT: one input column per target column.

PositionIn(list, x) == CHOOSE i \in DOMAIN list : list[i] = x

\* Whether the input's logical properties prove its columns not null; only
\* the foreign-key checks of an outbound key read it.
InputNotNull == IF OutboundForeignKeyCount > 0 THEN BOOLEAN ELSE {FALSE}

BuildInputForInsert ==
    /\ pc = "targets"
    /\ \E nn \in InputNotNull :
        outScope' =
            [i \in 1..Len(targetColList) |->
                ScopeCol(nextColID + i - 1,
                         ColName(ColumnOrdinal(targetColList[i])), "input", nn)]
    /\ nextColID' = nextColID + Len(targetColList)
    /\ insertOrds' =
        [o \in TabOrds |->
            IF ColumnID(o) \in Range(targetColList)
            THEN PositionIn(targetColList, ColumnID(o)) - 1
            ELSE Unset]
    /\ pc' = "insDefaults"
    /\ UNCHANGED <<catalogVars, err, targetVars, fetchOrds, updateOrds,
                   upsertOrds, checkOrds, canaryColID, extraAccessibleCols,
                   distinctOn, fkVars, private, resolved, execVars>>

---------------------------------------------------------------------------
\* Input of UPDATE and DELETE.

\* The primary index is on column 0.
PrimaryKeyOrds == {0}

\* The ORDER BY of the statement projects at most this many expressions
\* that are not columns of the input.  The scope keeps them apart from its
\* columns (they are used for the ordering only), so each takes a column
\* ID and no scope ordinal.  Statements on tables with foreign keys or
\* check constraints are built without such an expression.
OrderByExprs ==
    IF CheckCount = 0 /\ OutboundForeignKeyCount = 0 /\ InboundForeignKeyCount = 0
    THEN {0, 1} ELSE {0}

\* The grouping columns of the DistinctOn buildInputForUpdate builds over
\* the scope cols: the primary key columns that are not hidden.
pkCols(cols) == {cols[o + 1].id : o \in {p \in PrimaryKeyOrds : ~cols[p + 1].hidden}}

\* The input with the fetch role recorded for the public columns only.
BuildInputForUpdatePublicOnly ==
    /\ pc = "input"
    /\ opName = "update"
    /\ \E fromClausePresent \in BOOLEAN, orderBy \in OrderByExprs :
        LET scan == ScanCols(nextColID)
            numCols == Len(scan)
            fromCols == <<ScopeCol(nextColID + numCols, FromName, "from", FALSE)>>
            cols == IF fromClausePresent THEN scan \o fromCols ELSE scan
        IN
        /\ outScope' = cols
        /\ extraAccessibleCols' = IF fromClausePresent THEN fromCols ELSE <<>>
        /\ nextColID' = nextColID + Len(cols) + orderBy
        /\ distinctOn' = IF fromClausePresent THEN pkCols(cols) ELSE {}
        /\ fetchOrds' = [i \in TabOrds |-> IF i < ColumnCount THEN i ELSE fetchOrds[i]]
    /\ pc' = "updTargets"
    /\ UNCHANGED <<catalogVars, err, targetVars, insertOrds, updateOrds,
                   upsertOrds, checkOrds, canaryColID, fkVars, private,
                   resolved, execVars>>

\* buildInputForUpdate: the scan of the target table (mutation columns
\* included), the join with the FROM source, the DistinctOn, and the fetch
\* role of the scan's columns.
BuildInputForUpdate ==
    /\ pc = "input"
    /\ opName = "update"
    /\ \E fromClausePresent \in BOOLEAN, orderBy \in OrderByExprs :
        LET scan == ScanCols(nextColID)
            numCols == Len(scan)
            fromCols == <<ScopeCol(nextColID + numCols, FromName, "from", FALSE)>>
            cols == IF fromClausePresent THEN scan \o fromCols ELSE scan
        IN
        /\ outScope' = cols
        /\ extraAccessibleCols' = IF fromClausePresent THEN fromCols ELSE <<>>
        /\ nextColID' = nextColID + Len(cols) + orderBy
        /\ distinctOn' = IF fromClausePresent THEN pkCols(cols) ELSE {}
        /\ fetchOrds' = [i \in TabOrds |-> IF i < numCols THEN i ELSE fetchOrds[i]]
    /\ pc' = "updTargets"
    /\ UNCHANGED <<catalogVars, err, targetVars, insertOrds, updateOrds,
                   upsertOrds, checkOrds, canaryColID, fkVars, private,
                   resolved, execVars>>

BuildInputForDelete ==
    /\ pc = "input"
    /\ opName = "delete"
    /\ \E orderBy \in OrderByExprs :
        /\ outScope' = ScanCols(nextColID)
        /\ nextColID' = nextColID + DeletableColumnCount + orderBy
        /\ fetchOrds' =
            [i \in TabOrds |-> IF i < Len(ScanCols(nextColID)) THEN i ELSE fetchOrds[i]]
    /\ pc' = "fk"
    /\ UNCHANGED <<catalogVars, err, targetVars, insertOrds, updateOrds,
                   upsertOrds, checkOrds, canaryColID, extraAccessibleCols,
                   distinctOn, fkVars, private, resolved, execVars>>

---------------------------------------------------------------------------
\* Synthesized (default and computed) columns.

\* The loop that synthesizes no column.
synthesizeNone(i, approve, st) == st

\* The loop over the delete-only columns as well.
RECURSIVE synthesizeFromDeletable(_, _, _)
synthesizeFromDeletable(i, approve, st) ==
    IF i >= DeletableColumnCount THEN st
    ELSE IF st.ords[i] # Unset \/ i \notin approve
    THEN synthesizeFromDeletable(i + 1, approve, st)
    ELSE synthesizeFromDeletable(i + 1, approve,
            [ords |-> [st.ords EXCEPT ![i] = Len(st.cols)],
             cols |-> Append(st.cols,
                        ScopeCol(nextColID + Len(st.cols) - Len(outScope), ColName(i),
                                 IF Column(i).computed THEN "computed" ELSE "default",
                                 FALSE)),
             list |-> Append(st.list, ColumnID(i)),
             set |-> st.set \cup {ColumnID(i)},
             layers |-> 1])

\* The loop of addSynthesizedCols from table column i on.  approve is the
\* set of table columns for which the addCol callback returns true; st holds
\* the role array, the projection scope, the target list, the target set
\* and the number of Project operators the call constructs: the projection
\* scope is made at the first column added and projected once, after the loop.
RECURSIVE synthesizeFrom(_, _, _)
synthesizeFrom(i, approve, st) ==
    IF i >= WritableColumnCount THEN st
    ELSE IF st.ords[i] # Unset \/ i \notin approve
    THEN synthesizeFrom(i + 1, approve, st)
    ELSE synthesizeFrom(i + 1, approve,
            [ords |-> [st.ords EXCEPT ![i] = Len(st.cols)],
             cols |-> Append(st.cols,
                        ScopeCol(nextColID + Len(st.cols) - Len(outScope), ColName(i),
                                 IF Column(i).computed THEN "computed" ELSE "default",
                                 FALSE)),
             list |-> Append(st.list, ColumnID(i)),
             set |-> st.set \cup {ColumnID(i)},
             layers |-> 1])

\* addSynthesizedCols without the skip of the columns already specified.
addSynthesizedColsAll(scopeOrds, approve) ==
    synthesizeFrom(0, approve,
        [ords |-> [i \in DOMAIN scopeOrds |-> Unset], cols |-> outScope,
         list |-> targetColList, set |-> targetColSet, layers |-> 0])

addSynthesizedCols(scopeOrds, approve) ==
    synthesizeFrom(0, approve,
        [ords |-> scopeOrds, cols |-> outScope, list |-> targetColList,
         set |-> targetColSet, layers |-> 0])

ComputedOrds == {i \in TabOrds : Column(i).computed}

\* The three calls of addSynthesizedCols: the non-computed and then the
\* computed columns of INSERT (addDefaultAndComputedColsForInsert), and the
\* computed columns of UPDATE (addComputedColsForUpdate).
AddSynthesizedCols ==
    /\ pc \in {"insDefaults", "insComputed", "updComputed"}
    /\ LET forUpdate == pc = "updComputed"
           approve == IF pc = "insDefaults" THEN TabOrds \ ComputedOrds ELSE ComputedOrds
           r == addSynthesizedCols(IF forUpdate THEN updateOrds ELSE insertOrds, approve)
       IN
       /\ outScope' = r.cols
       /\ nextColID' = nextColID + Len(r.cols) - Len(outScope)
       /\ targetColList' = r.list
       /\ targetColSet' = r.set
       /\ insertOrds' = IF forUpdate THEN insertOrds ELSE r.ords
       /\ updateOrds' = IF forUpdate THEN r.ords ELSE updateOrds
       /\ projections' = projections + r.layers
       /\ addCol' = approve
    /\ pc' = CASE pc = "insDefaults" -> "insRound"
               [] pc = "insComputed" -> "insRoundComputed"
               [] pc = "updComputed" -> "updRoundComputed"
    /\ UNCHANGED <<catalogVars, err, fetchOrds, upsertOrds, checkOrds,
                   canaryColID, extraAccessibleCols, distinctOn, fkVars,
                   private, resolved, inputRows, checkedRows, valuesVars, joinVars>>

---------------------------------------------------------------------------
\* Rounding of DECIMAL columns.

\* findRoundingFunction without the test of the precision.
findRoundingFunctionAnyPrecision(typ, precision) ==
    typ = "decimal" \/ typ = "decimal[]"

\* findRoundingFunction returns a function (not nil).
findRoundingFunction(typ, precision) ==
    IF precision = 0 THEN FALSE
    ELSE typ = "decimal" \/ typ = "decimal[]"

\* The wrapped column with a scale that shrinks with every wrapping.
roundedColumnNarrowing(i, ord, id) ==
    [outScope[ord + 1] EXCEPT
        !.id = id,
        !.kind = "round",
        !.rounds = @ + 1,
        !.wraps = Append(@, Column(i).width - Len(@))]

\* The scope column populateSynthesizedColumn leaves for table column i,
\* whose value is at scope ordinal ord: a new column (id) that holds
\* crdb_internal.round_decimal_values(<column at ord>, col.ColTypeWidth()).
\* wraps lists the scales of the calls around the input value, innermost
\* first.
roundedColumn(i, ord, id) ==
    [outScope[ord + 1] EXCEPT
        !.id = id,
        !.kind = "round",
        !.rounds = @ + 1,
        !.wraps = Append(@, Column(i).width)]

\* The loop of roundDecimalValues from table column i on; st holds the
\* projection scope and the number of column IDs handed out.
RECURSIVE roundFrom(_, _, _, _)
roundFrom(i, scopeOrds, roundComputedCols, st) ==
    IF i >= DeletableColumnCount THEN st
    ELSE IF \/ scopeOrds[i] = Unset
            \/ Column(i).computed # roundComputedCols
            \/ ~findRoundingFunction(Column(i).typ, Column(i).precision)
    THEN roundFrom(i + 1, scopeOrds, roundComputedCols, st)
    ELSE roundFrom(i + 1, scopeOrds, roundComputedCols,
            [cols |-> [st.cols EXCEPT ![scopeOrds[i] + 1] =
                          roundedColumn(i, scopeOrds[i], nextColID + st.n)],
             n |-> st.n + 1])

roundDecimalValues(scopeOrds, roundComputedCols) ==
    roundFrom(0, scopeOrds, roundComputedCols, [cols |-> outScope, n |-> 0])

RoundDecimalValues ==
    /\ pc \in {"insRound", "insRoundComputed", "updRound", "updRoundComputed"}
    /\ LET ords == IF pc \in {"insRound", "insRoundComputed"} THEN insertOrds ELSE updateOrds
           r == roundDecimalValues(ords, pc \in {"insRoundComputed", "updRoundComputed"})
       IN
       /\ outScope' = r.cols
       /\ nextColID' = nextColID + r.n
       /\ projections' = projections + (IF r.n > 0 THEN 1 ELSE 0)
    /\ pc' = CASE pc = "insRound" -> "insComputed"
               [] pc = "insRoundComputed" ->
                    IF opName = "upsert" THEN "upsertInput" ELSE "checks"
               [] pc = "updRound" -> "updComputed"
               [] pc = "updRoundComputed" ->
                    IF opName = "upsert" THEN "upsertCols" ELSE "checks"
    /\ UNCHANGED <<catalogVars, err, targetVars, roleVars, canaryColID,
                   extraAccessibleCols, distinctOn, fkVars, private, resolved,
                   inputRows, checkedRows, valuesVars, joinVars, addCol>>

---------------------------------------------------------------------------
\* UPSERT: the existing rows are joined in (buildInputForUpsert), the SET
\* values are projected (addUpdateCols) and each column that has both an
\* insert and an update-or-fetch value gets a CASE column
\* (projectUpsertColumns).

BuildInputForUpsert ==
    /\ pc = "upsertInput"
    /\ outScope' = outScope \o ScanCols(nextColID)
    /\ nextColID' = nextColID + DeletableColumnCount
    /\ fetchOrds' = [i \in TabOrds |-> Len(outScope) + i]
    /\ canaryColID' = nextColID
    /\ targetColList' = <<>>
    /\ targetColSet' = {}
    /\ pc' = "updTargets"
    /\ UNCHANGED <<catalogVars, err, insertOrds, updateOrds, upsertOrds,
                   checkOrds, extraAccessibleCols, distinctOn, fkVars,
                   private, resolved, execVars>>

AddUpdateCols ==
    /\ pc = "updTargets"
    /\ opName = "update" => targetColList # <<>>
    /\ outScope' =
        outScope \o
        [i \in 1..Len(targetColList) |->
            ScopeCol(nextColID + i - 1, ColName(ColumnOrdinal(targetColList[i])),
                     "update", FALSE)]
    /\ nextColID' = nextColID + Len(targetColList)
    /\ updateOrds' =
        [o \in TabOrds |->
            IF ColumnID(o) \in Range(targetColList)
            THEN Len(outScope) + PositionIn(targetColList, ColumnID(o)) - 1
            ELSE Unset]
    /\ pc' = "updRound"
    /\ UNCHANGED <<catalogVars, err, targetVars, insertOrds, fetchOrds,
                   upsertOrds, checkOrds, canaryColID, extraAccessibleCols,
                   distinctOn, fkVars, private, resolved, execVars>>

NeedsUpsertCol(i) ==
    /\ i < WritableColumnCount
    /\ insertOrds[i] # Unset
    /\ updateOrds[i] # Unset \/ fetchOrds[i] # Unset

RECURSIVE projectUpsertFrom(_, _)
projectUpsertFrom(i, st) ==
    IF i >= WritableColumnCount THEN st
    ELSE IF ~NeedsUpsertCol(i) THEN projectUpsertFrom(i + 1, st)
    ELSE projectUpsertFrom(i + 1,
            [ords |-> [st.ords EXCEPT ![i] = Len(st.cols)],
             cols |-> Append(st.cols,
                        ScopeCol(nextColID + Len(st.cols) - Len(outScope), ColName(i),
                                 "upsert", FALSE))])

ProjectUpsertColumns ==
    /\ pc = "upsertCols"
    /\ LET r == projectUpsertFrom(0, [ords |-> upsertOrds, cols |-> outScope]) IN
       /\ outScope' = r.cols
       /\ upsertOrds' = r.ords
       /\ nextColID' = nextColID + Len(r.cols) - Len(outScope)
    /\ pc' = "checks"
    /\ UNCHANGED <<catalogVars, err, targetVars, insertOrds, fetchOrds,
                   updateOrds, checkOrds, canaryColID, extraAccessibleCols,
                   distinctOn, fkVars, private, resolved, execVars>>

---------------------------------------------------------------------------
\* Check constraints.

\* The preserved ordinals with the fetched value ranked above the updated one.
preserveFetchFirst ==
    {mapToReturnScopeOrdFetchFirst(i) :
        i \in {j \in TabOrds : mapToReturnScopeOrdFetchFirst(j) # Unset}}

\* The scope ordinals whose names disambiguateColumns preserves.
preserve ==
    {mapToReturnScopeOrd(i) : i \in {j \in TabOrds : mapToReturnScopeOrd(j) # Unset}}

disambiguateColumns ==
    [o \in 1..Len(outScope) |->
        IF (o - 1) \in preserve THEN outScope[o]
        ELSE [outScope[o] EXCEPT !.name = NoName]]

\* The check columns put ahead of the columns of the scope.
addCheckConstraintColsFirst ==
    IF CheckCount # 0
    THEN [cols |-> [i \in 1..CheckCount |->
                       ScopeCol(nextColID + i - 1, CheckAlias(i - 1), "check", FALSE)]
                   \o disambiguateColumns,
          ords |-> [i \in 0..(CheckCount - 1) |-> i]]
    ELSE [cols |-> outScope, ords |-> checkOrds]

addCheckConstraintCols ==
    IF CheckCount # 0
    THEN [cols |-> disambiguateColumns \o
                   [i \in 1..CheckCount |->
                       ScopeCol(nextColID + i - 1, CheckAlias(i - 1), "check", FALSE)],
          ords |-> [i \in 0..(CheckCount - 1) |-> Len(outScope) + i]]
    ELSE [cols |-> outScope, ords |-> checkOrds]

AddCheckConstraintCols ==
    /\ pc = "checks"
    /\ LET r == addCheckConstraintCols IN
       /\ outScope' = r.cols
       /\ checkOrds' = r.ords
       /\ nextColID' = nextColID + Len(r.cols) - Len(outScope)
       /\ projections' = projections + (IF CheckCount # 0 THEN 1 ELSE 0)
    /\ pc' = "fk"
    /\ UNCHANGED <<catalogVars, err, targetVars, insertOrds, fetchOrds,
                   updateOrds, upsertOrds, canaryColID, extraAccessibleCols,
                   distinctOn, fkVars, private, resolved, inputRows,
                   checkedRows, valuesVars, joinVars, addCol>>

---------------------------------------------------------------------------
\* Foreign-key checks: the helper and the leaves of a check query.

TargetTable == <<"target", 0>>
NoFilter == [type |-> "none", cols |-> <<>>]

\* A relational input of a check: a WithScan of the buffered mutation input
\* (inCols of the input read as outCols), a Select over one, or an Except
\* of two (the right one in rightWith, rightInCols, rightOutCols).
WithScan(w, inCols, outCols) ==
    [op |-> "with-scan", with |-> w, inCols |-> inCols, outCols |-> outCols,
     filter |-> NoFilter, rightWith |-> 0, rightInCols |-> <<>>,
     rightOutCols |-> <<>>]
Select(input, filter) == [input EXCEPT !.op = "select", !.filter = filter]
Except(left, right) ==
    [left EXCEPT !.op = "except", !.rightWith = right.with,
                 !.rightInCols = right.inCols,
                 !.rightOutCols = right.outCols]

\* The helper initWithOutboundFK leaves, and the value it returns (ok).
initWithOutboundFK(fkOrdinal) ==
    LET fk == tab.outbound[fkOrdinal + 1] IN
    IF fk.adding
    THEN [ok |-> FALSE, fk |-> fk, fkOrdinal |-> fkOrdinal, fkOutbound |-> TRUE,
          hasOtherTab |-> FALSE, otherTab |-> <<"referenced", fkOrdinal>>,
          tabOrdinals |-> <<>>, otherTabOrdinals |-> <<>>]
    ELSE [ok |-> TRUE, fk |-> fk, fkOrdinal |-> fkOrdinal, fkOutbound |-> TRUE,
          hasOtherTab |-> TRUE, otherTab |-> <<"referenced", fkOrdinal>>,
          tabOrdinals |-> fk.cols,
          otherTabOrdinals |-> [i \in DOMAIN fk.cols |-> i - 1]]

initWithInboundFK(fkOrdinal) ==
    LET fk == tab.inbound[fkOrdinal + 1] IN
    IF fk.adding
    THEN [ok |-> FALSE, fk |-> fk, fkOrdinal |-> fkOrdinal, fkOutbound |-> FALSE,
          hasOtherTab |-> FALSE, otherTab |-> <<"origin", fkOrdinal>>,
          tabOrdinals |-> <<>>, otherTabOrdinals |-> <<>>]
    ELSE [ok |-> TRUE, fk |-> fk, fkOrdinal |-> fkOrdinal, fkOutbound |-> FALSE,
          hasOtherTab |-> TRUE, otherTab |-> <<"origin", fkOrdinal>>,
          tabOrdinals |-> fk.cols,
          otherTabOrdinals |-> [i \in DOMAIN fk.cols |-> i - 1]]

\* outScope.expr.Relational().NotNullCols.Contains(colID)
NotNullCols(colID) == \E o \in DOMAIN outScope : outScope[o].id = colID /\ outScope[o].notNull

\* The scan of the new values through a binding of its own.
makeFKInputScanOwnBinding(h, typ, w, firstID) ==
    LET inputCols ==
            [i \in DOMAIN h.tabOrdinals |->
                IF typ = "fkInputScanNewVals"
                THEN scopeOrdToColID(mapToReturnScopeOrd(h.tabOrdinals[i]))
                ELSE scopeOrdToColID(fetchOrds[h.tabOrdinals[i]])]
        outCols == [i \in DOMAIN h.tabOrdinals |-> firstID + i - 1]
    IN
    [panic |-> \E i \in DOMAIN inputCols : inputCols[i] = 0,
     scan |-> WithScan(IF typ = "fkInputScanNewVals" THEN w + 1 ELSE w,
                       inputCols, outCols),
     outCols |-> outCols,
     notNullOutCols |->
        {outCols[i] : i \in {j \in DOMAIN h.tabOrdinals :
            NotNullCols(inputCols[j]) \/ ~Column(h.tabOrdinals[j]).nullable}}]

\* makeFKInputScan for the helper h; w is mb.withID and firstID the next free
\* column ID.  panic: a key column has no value (the AssertionFailedf).
makeFKInputScan(h, typ, w, firstID) ==
    LET inputCols ==
            [i \in DOMAIN h.tabOrdinals |->
                IF typ = "fkInputScanNewVals"
                THEN scopeOrdToColID(mapToReturnScopeOrd(h.tabOrdinals[i]))
                ELSE scopeOrdToColID(fetchOrds[h.tabOrdinals[i]])]
        outCols == [i \in DOMAIN h.tabOrdinals |-> firstID + i - 1]
    IN
    [panic |-> \E i \in DOMAIN inputCols : inputCols[i] = 0,
     scan |-> WithScan(w, inputCols, outCols),
     outCols |-> outCols,
     notNullOutCols |->
        {outCols[i] : i \in {j \in DOMAIN h.tabOrdinals :
            NotNullCols(inputCols[j]) \/ ~Column(h.tabOrdinals[j]).nullable}}]

\* The filter with MATCH FULL handled as MATCH SIMPLE is.
insertionFilterSimpleOnly(matchMethod, withScanCols, notNullWithScanCols) ==
    IF Cardinality(notNullWithScanCols) < Len(withScanCols)
    THEN [type |-> "and",
          cols |-> SelectSeq(withScanCols, LAMBDA c : c \notin notNullWithScanCols)]
    ELSE NoFilter

\* The filter addInsertionCheck puts on the input of the anti-join: "and"
\* keeps the rows in which every listed column IS NOT NULL, "or" the rows in
\* which some listed column IS NOT NULL.
insertionFilter(matchMethod, withScanCols, notNullWithScanCols) ==
    IF Cardinality(notNullWithScanCols) < Len(withScanCols)
    THEN IF matchMethod = "SIMPLE"
         THEN [type |-> "and",
               cols |-> SelectSeq(withScanCols, LAMBDA c : c \notin notNullWithScanCols)]
         ELSE IF notNullWithScanCols # {} THEN NoFilter
         ELSE [type |-> "or", cols |-> withScanCols]
    ELSE NoFilter

\* acc: the checks built so far, the column IDs handed out so far, and
\* "ok", "fallback" (the loop bailed out) or "panic".
AccInit == [checks |-> <<>>, n |-> 0, status |-> "ok", err |-> "none"]
Panic(acc, e) == [acc EXCEPT !.status = "panic", !.err = e]

\* addInsertionCheck.  It does not test what initWithOutboundFK returns: when
\* the referenced table is being added, the helper has no key columns and a
\* nil otherTab, and buildOtherTableScan dereferences it.
addInsertionCheck(fkOrdinal, w, acc) ==
    LET h == initWithOutboundFK(fkOrdinal)
        s == makeFKInputScan(h, "fkInputScanNewVals", w, nextColID + acc.n)
        numCols == Len(s.outCols)
        filter == insertionFilter(h.fk.match, s.outCols, s.notNullOutCols)
        fkInput == IF filter.type = "none" THEN s.scan ELSE Select(s.scan, filter)
        scanCols == [j \in 1..numCols |-> nextColID + acc.n + numCols + j - 1]
    IN
    IF s.panic THEN Panic(acc, "AssertionFailure")
    ELSE IF ~h.hasOtherTab THEN Panic(acc, "NilPointerDereference")
    ELSE [acc EXCEPT
            !.n = @ + 2 * numCols,
            !.checks = Append(@,
                [join |-> "anti", input |-> fkInput, filters |-> scanCols,
                 OriginTable |-> TargetTable, ReferencedTable |-> h.otherTab,
                 FKOutbound |-> TRUE, FKOrdinal |-> fkOrdinal,
                 KeyCols |-> s.outCols, OpName |-> opName])]

\* The deletion check recorded with the direction and the tables of an
\* insertion check.
addDeletionCheckAsOutbound(h, deletedRows, deleteCols, idsUsed, acc) ==
    LET scanCols ==
            [j \in 1..Len(deleteCols) |-> nextColID + acc.n + idsUsed + j - 1]
    IN
    [acc EXCEPT
        !.n = @ + idsUsed + Len(deleteCols),
        !.checks = Append(@,
            [join |-> "semi", input |-> deletedRows, filters |-> scanCols,
             OriginTable |-> TargetTable, ReferencedTable |-> h.otherTab,
             FKOutbound |-> TRUE, FKOrdinal |-> h.fkOrdinal,
             KeyCols |-> deleteCols, OpName |-> opName])]

\* addDeletionCheck; idsUsed is the number of column IDs the caller's
\* WithScans took.
addDeletionCheck(h, deletedRows, deleteCols, idsUsed, acc) ==
    LET scanCols ==
            [j \in 1..Len(deleteCols) |-> nextColID + acc.n + idsUsed + j - 1]
    IN
    [acc EXCEPT
        !.n = @ + idsUsed + Len(deleteCols),
        !.checks = Append(@,
            [join |-> "semi", input |-> deletedRows, filters |-> scanCols,
             OriginTable |-> h.otherTab, ReferencedTable |-> TargetTable,
             FKOutbound |-> FALSE, FKOrdinal |-> h.fkOrdinal,
             KeyCols |-> deleteCols, OpName |-> opName])]

\* The test with RESTRICT alone.
RestrictingOnly(a) == a = "Restrict"

\* a != tree.Restrict && a != tree.NoAction, negated.
Restricting(a) == a = "Restrict" \/ a = "NoAction"

outboundFKColsUpdated(fkOrdinal) ==
    \E i \in DOMAIN tab.outbound[fkOrdinal + 1].cols :
        updateOrds[tab.outbound[fkOrdinal + 1].cols[i]] # Unset

inboundFKColsUpdated(fkOrdinal) ==
    \E i \in DOMAIN tab.inbound[fkOrdinal + 1].cols :
        updateOrds[tab.inbound[fkOrdinal + 1].cols[i]] # Unset

---------------------------------------------------------------------------
\* Foreign-key checks: the loops of the four buildFKChecksFor* methods.

\* The loop over the outbound keys from key i on: INSERT and UPSERT check
\* every key, UPDATE (onlyUpdated) the keys with an updated column.
RECURSIVE insertionChecksFrom(_, _, _, _)
insertionChecksFrom(i, onlyUpdated, w, acc) ==
    IF i >= OutboundForeignKeyCount \/ acc.status # "ok" THEN acc
    ELSE IF onlyUpdated /\ ~outboundFKColsUpdated(i)
    THEN insertionChecksFrom(i + 1, onlyUpdated, w, acc)
    ELSE insertionChecksFrom(i + 1, onlyUpdated, w, addInsertionCheck(i, w, acc))

\* The loop of buildFKChecksForDelete from inbound key i on.
RECURSIVE deleteChecksFrom(_, _, _)
deleteChecksFrom(i, w, acc) ==
    IF i >= InboundForeignKeyCount \/ acc.status # "ok" THEN acc
    ELSE LET h == initWithInboundFK(i)
             s == makeFKInputScan(h, "fkInputScanFetchedVals", w, nextColID + acc.n)
         IN
         IF ~h.ok THEN deleteChecksFrom(i + 1, w, acc)
         ELSE IF ~Restricting(h.fk.deleteAction)
         THEN [acc EXCEPT !.checks = <<>>, !.status = "fallback"]
         ELSE IF s.panic THEN Panic(acc, "AssertionFailure")
         ELSE deleteChecksFrom(i + 1, w,
                addDeletionCheck(h, s.scan, s.outCols, Len(s.outCols), acc))

\* The Except with its operands exchanged.
deletedRowsExchanged(old, new) == Except(new.scan, old.scan)

\* deletedRows of buildFKChecksForUpdate and buildFKChecksForUpsert: the
\* Except of the scan of the fetched values and the scan of the new values.
deletedRows(old, new) == Except(old.scan, new.scan)

\* The loop that falls back without emptying the check list.
RECURSIVE updateDeletionChecksFromKeeping(_, _, _)
updateDeletionChecksFromKeeping(i, w, acc) ==
    IF i >= InboundForeignKeyCount \/ acc.status # "ok" THEN acc
    ELSE LET h == initWithInboundFK(i)
             old == makeFKInputScan(h, "fkInputScanFetchedVals", w, nextColID + acc.n)
             new == makeFKInputScan(h, "fkInputScanNewVals", w,
                                    nextColID + acc.n + Len(old.outCols))
         IN
         IF ~inboundFKColsUpdated(i) THEN updateDeletionChecksFromKeeping(i + 1, w, acc)
         ELSE IF ~h.ok THEN updateDeletionChecksFromKeeping(i + 1, w, acc)
         ELSE IF ~Restricting(h.fk.updateAction)
         THEN [acc EXCEPT !.status = "fallback"]
         ELSE IF old.panic \/ new.panic THEN Panic(acc, "AssertionFailure")
         ELSE updateDeletionChecksFromKeeping(i + 1, w,
                addDeletionCheck(h, deletedRows(old, new), old.outCols,
                                 Len(old.outCols) + Len(new.outCols), acc))

\* The inbound loop of buildFKChecksForUpdate from key i on.
RECURSIVE updateDeletionChecksFrom(_, _, _)
updateDeletionChecksFrom(i, w, acc) ==
    IF i >= InboundForeignKeyCount \/ acc.status # "ok" THEN acc
    ELSE LET h == initWithInboundFK(i)
             old == makeFKInputScan(h, "fkInputScanFetchedVals", w, nextColID + acc.n)
             new == makeFKInputScan(h, "fkInputScanNewVals", w,
                                    nextColID + acc.n + Len(old.outCols))
         IN
         IF ~inboundFKColsUpdated(i) THEN updateDeletionChecksFrom(i + 1, w, acc)
         ELSE IF ~h.ok THEN updateDeletionChecksFrom(i + 1, w, acc)
         ELSE IF ~Restricting(h.fk.updateAction)
         THEN [acc EXCEPT !.checks = <<>>, !.status = "fallback"]
         ELSE IF old.panic \/ new.panic THEN Panic(acc, "AssertionFailure")
         ELSE updateDeletionChecksFrom(i + 1, w,
                addDeletionCheck(h, deletedRows(old, new), old.outCols,
                                 Len(old.outCols) + Len(new.outCols), acc))

\* The inbound loop of buildFKChecksForUpsert from key i on.
RECURSIVE upsertDeletionChecksFrom(_, _, _)
upsertDeletionChecksFrom(i, w, acc) ==
    IF i >= InboundForeignKeyCount \/ acc.status # "ok" THEN acc
    ELSE LET h == initWithInboundFK(i)
             old == makeFKInputScan(h, "fkInputScanFetchedVals", w, nextColID + acc.n)
             new == makeFKInputScan(h, "fkInputScanNewVals", w,
                                    nextColID + acc.n + Len(old.outCols))
         IN
         IF ~inboundFKColsUpdated(i) THEN upsertDeletionChecksFrom(i + 1, w, acc)
         ELSE IF ~h.ok THEN upsertDeletionChecksFrom(i + 1, w, acc)
         ELSE IF ~Restricting(h.fk.updateAction)
         THEN [acc EXCEPT !.checks = <<>>, !.status = "fallback"]
         ELSE IF old.panic \/ new.panic THEN Panic(acc, "AssertionFailure")
         ELSE upsertDeletionChecksFrom(i + 1, w,
                addDeletionCheck(h, deletedRows(old, new), old.outCols,
                                 Len(old.outCols) + Len(new.outCols), acc))

\* Memo.NextWithID of the statement's memo.
NextWithID == withID + 1

buildFKChecksForInsert(w) == insertionChecksFrom(0, FALSE, w, AccInit)
buildFKChecksForDelete(w) == deleteChecksFrom(0, w, AccInit)
buildFKChecksForUpdate(w) ==
    updateDeletionChecksFrom(0, w, insertionChecksFrom(0, TRUE, w, AccInit))
buildFKChecksForUpsert(w) ==
    upsertDeletionChecksFrom(0, w, insertionChecksFrom(0, FALSE, w, AccInit))

\* The step with the binding reserved before the session's flag is tested.
FKChecksStepReservesFirst(relevantFKs, acc) ==
    /\ pc = "fk"
    /\ IF relevantFKs = 0
       THEN /\ pc' = "private"
            /\ UNCHANGED <<err, checks, fkFallback, withID, nextColID>>
       ELSE IF ~optimizerFKs
       THEN /\ withID' = NextWithID
            /\ fkFallback' = TRUE
            /\ pc' = "private"
            /\ UNCHANGED <<err, checks, nextColID>>
       ELSE /\ withID' = NextWithID
            /\ checks' = acc.checks
            /\ fkFallback' = (fkFallback \/ acc.status = "fallback")
            /\ nextColID' = nextColID + acc.n
            /\ err' = acc.err
            /\ pc' = IF acc.status = "panic" THEN "error" ELSE "private"
    /\ UNCHANGED <<catalogVars, outScope, targetVars, roleVars, canaryColID,
                   extraAccessibleCols, distinctOn, optimizerFKs, private,
                   resolved, execVars>>

\* What the four methods share: nothing to do without a relevant key, the
\* fallback when the session disables the optimizer's checks, and otherwise
\* the result acc of the method's loops.
FKChecksStep(relevantFKs, acc) ==
    /\ pc = "fk"
    /\ IF relevantFKs = 0
       THEN /\ pc' = "private"
            /\ UNCHANGED <<err, checks, fkFallback, withID, nextColID>>
       ELSE IF ~optimizerFKs
       THEN /\ fkFallback' = TRUE
            /\ pc' = "private"
            /\ UNCHANGED <<err, checks, withID, nextColID>>
       ELSE /\ withID' = NextWithID
            /\ checks' = acc.checks
            /\ fkFallback' = (fkFallback \/ acc.status = "fallback")
            /\ nextColID' = nextColID + acc.n
            /\ err' = acc.err
            /\ pc' = IF acc.status = "panic" THEN "error" ELSE "private"
    /\ UNCHANGED <<catalogVars, outScope, targetVars, roleVars, canaryColID,
                   extraAccessibleCols, distinctOn, optimizerFKs, private,
                   resolved, execVars>>

BuildFKChecksForInsert ==
    /\ opName = "insert"
    /\ FKChecksStep(OutboundForeignKeyCount, buildFKChecksForInsert(NextWithID))

BuildFKChecksForDelete ==
    /\ opName = "delete"
    /\ FKChecksStep(InboundForeignKeyCount, buildFKChecksForDelete(NextWithID))

BuildFKChecksForUpdate ==
    /\ opName = "update"
    /\ FKChecksStep(OutboundForeignKeyCount + InboundForeignKeyCount,
                    buildFKChecksForUpdate(NextWithID))

BuildFKChecksForUpsert ==
    /\ opName = "upsert"
    /\ FKChecksStep(OutboundForeignKeyCount + InboundForeignKeyCount,
                    buildFKChecksForUpsert(NextWithID))

---------------------------------------------------------------------------
\* The mutation operator's private.

\* The list of the set entries alone, in order.
makeColListPacked(scopeOrds) ==
    SelectSeq([i \in 1..Cardinality(DOMAIN scopeOrds) |-> scopeOrdToColID(scopeOrds[i - 1])],
              LAMBDA c : c # 0)

\* makeColList: nil (here the empty list) when no entry is set.
makeColList(scopeOrds) ==
    IF \A i \in DOMAIN scopeOrds : scopeOrds[i] = Unset THEN <<>>
    ELSE [i \in 1..Cardinality(DOMAIN scopeOrds) |-> scopeOrdToColID(scopeOrds[i - 1])]

\* The private with the return columns of the mutation columns filled in.
makeMutationPrivateAllColumns(needResults) ==
    [built |-> TRUE,
     panic |-> needResults /\ \E i \in 0..(ColumnCount - 1) : mapToReturnScopeOrd(i) = Unset,
     InsertCols |-> makeColList(insertOrds),
     FetchCols |-> makeColList(fetchOrds),
     UpdateCols |-> makeColList(updateOrds),
     CanaryCol |-> canaryColID,
     CheckCols |-> makeColList(checkOrds),
     FKFallback |-> fkFallback,
     WithID |-> IF Len(checks) > 0 THEN withID ELSE 0,
     ReturnCols |->
        IF needResults
        THEN [i \in 1..DeletableColumnCount |->
                scopeOrdToColID(mapToReturnScopeOrd(i - 1))]
        ELSE <<>>]

\* The private with the binding attached whether or not a check was built.
makeMutationPrivateAlwaysBuffers(needResults) ==
    [built |-> TRUE,
     panic |-> needResults /\ \E i \in 0..(ColumnCount - 1) : mapToReturnScopeOrd(i) = Unset,
     InsertCols |-> makeColList(insertOrds),
     FetchCols |-> makeColList(fetchOrds),
     UpdateCols |-> makeColList(updateOrds),
     CanaryCol |-> canaryColID,
     CheckCols |-> makeColList(checkOrds),
     FKFallback |-> fkFallback,
     WithID |-> withID,
     ReturnCols |->
        IF needResults
        THEN [i \in 1..DeletableColumnCount |->
                IF i - 1 < ColumnCount
                THEN scopeOrdToColID(mapToReturnScopeOrd(i - 1)) ELSE 0]
        ELSE <<>>]

\* makeMutationPrivate: the role lists, the binding when a check was built,
\* and the return columns when results are needed; panic is its assertion.
makeMutationPrivate(needResults) ==
    [built |-> TRUE,
     panic |-> needResults /\ \E i \in 0..(ColumnCount - 1) : mapToReturnScopeOrd(i) = Unset,
     InsertCols |-> makeColList(insertOrds),
     FetchCols |-> makeColList(fetchOrds),
     UpdateCols |-> makeColList(updateOrds),
     CanaryCol |-> canaryColID,
     CheckCols |-> makeColList(checkOrds),
     FKFallback |-> fkFallback,
     WithID |-> IF Len(checks) > 0 THEN withID ELSE 0,
     ReturnCols |->
        IF needResults
        THEN [i \in 1..DeletableColumnCount |->
                IF i - 1 < ColumnCount
                THEN scopeOrdToColID(mapToReturnScopeOrd(i - 1)) ELSE 0]
        ELSE <<>>]

MakeMutationPrivate ==
    /\ pc = "private"
    /\ \E needResults \in BOOLEAN :
        LET p == makeMutationPrivate(needResults) IN
        IF p.panic
        THEN Abort("AssertionFailure")
        ELSE /\ private' = p
             /\ pc' = "done"
             /\ UNCHANGED <<catalogVars, err, outScope, nextColID, targetVars,
                            roleVars, canaryColID, extraAccessibleCols,
                            distinctOn, fkVars, resolved, execVars>>

---------------------------------------------------------------------------
Next ==
    \/ AddTargetColsByName
    \/ BuildInputForInsert
    \/ BuildInputForUpdate
    \/ BuildInputForDelete
    \/ AddSynthesizedCols
    \/ RoundDecimalValues
    \/ BuildInputForUpsert
    \/ AddUpdateCols
    \/ ProjectUpsertColumns
    \/ AddCheckConstraintCols
    \/ BuildFKChecksForInsert
    \/ BuildFKChecksForDelete
    \/ BuildFKChecksForUpdate
    \/ BuildFKChecksForUpsert
    \/ MakeMutationPrivate

Spec == Init /\ [][Next]_vars

---------------------------------------------------------------------------
\* Execution of the checks' inputs.  A row of the buffered mutation input
\* gives a value to every input column a check reads; a check's WithScan
\* reads all buffered rows.

\* memo.NullSingleton, and the values of a column.
Null == 0
Values == {Null, 1, 2}

\* The input columns the checks read.
UsedCols ==
    UNION {Range(checks[i].input.inCols) \cup Range(checks[i].input.rightInCols) :
           i \in DOMAIN checks}

\* The column that holds the final value of table column i, and whether it
\* is known not to be null (makeFKInputScan's test).
FinalColID(i) == scopeOrdToColID(mapToReturnScopeOrd(i))
StaticNotNull(i) == NotNullCols(FinalColID(i)) \/ ~Column(i).nullable

\* The rows the input can hold: a column known not to be null holds no null
\* (a null in a NOT NULL column fails the mutation before the checks run).
Rows ==
    {r \in [UsedCols -> Values] :
        \A i \in TabOrds :
            FinalColID(i) \in UsedCols /\ StaticNotNull(i) => r[FinalColID(i)] # Null}
RowSets == {rs \in SUBSET Rows : Cardinality(rs) <= MaxRows}

\* The rows of a WithScan of the columns inCols, as tuples of values.
ScanRows(inCols, rows) == {[k \in DOMAIN inCols |-> r[inCols[k]]] : r \in rows}

\* Whether the tuple t of the columns outCols passes the filter.
Passes(filter, outCols, t) ==
    LET notNull(c) == \E k \in DOMAIN outCols : outCols[k] = c /\ t[k] # Null IN
    CASE filter.type = "and" -> \A k \in DOMAIN filter.cols : notNull(filter.cols[k])
      [] filter.type = "or" -> \E k \in DOMAIN filter.cols : notNull(filter.cols[k])
      [] OTHER -> TRUE

\* The rows the relational expression e yields on the buffered rows.
EvalInput(e, rows) ==
    CASE e.op = "with-scan" -> ScanRows(e.inCols, rows)
      [] e.op = "select" ->
            {t \in ScanRows(e.inCols, rows) : Passes(e.filter, e.outCols, t)}
      [] e.op = "except" -> ScanRows(e.inCols, rows) \ ScanRows(e.rightInCols, rows)

\* The statement runs: its input rows are buffered and every check's input
\* is computed from them.
RunFKChecks ==
    /\ pc = "private"
    /\ checks # <<>>
    /\ \E rs \in RowSets :
        /\ inputRows' = rs
        /\ checkedRows' = [i \in DOMAIN checks |-> EvalInput(checks[i].input, rs)]
    /\ pc' = "checked"
    /\ UNCHANGED <<catalogVars, err, outScope, nextColID, targetVars, roleVars,
                   canaryColID, extraAccessibleCols, distinctOn, fkVars, private,
                   resolved, valuesVars, joinVars, layerVars>>

\* The statements that are run: INSERT INTO t (every column) on a table with
\* one outbound key, under every combination of NOT NULL columns and of
\* input columns known not to be null; UPDATE t SET and INSERT INTO t (every
\* column) ON CONFLICT DO UPDATE SET on a table with one inbound key on one
\* column, setting the first, the last or every column, and on the tables
\* with an outbound key, setting every column.
RunInsertTables ==
    {MakeTable(pub, 0, 0, <<fk>>, <<>>) :
        pub \in [1..MaxCols -> {PlainCol, NotNullCol}],
        fk \in {[cols |-> k, match |-> m, adding |-> FALSE] :
                    k \in KeyChoices(MaxCols), m \in MatchMethods}}
RunUpdateTables ==
    {MakeTable(PlainLayout, 0, 0, <<>>, <<[PlainInbound EXCEPT !.cols = <<c>>]>>) :
        c \in 0..(MaxCols - 1)}
RunStatements ==
    {[op |-> "insert", t |-> t, nn |-> nn, set |-> <<>>] :
        t \in RunInsertTables, nn \in BOOLEAN}
    \cup {[op |-> op, t |-> t, nn |-> FALSE, set |-> u] :
            op \in {"update", "upsert"}, t \in RunUpdateTables,
            u \in {<<0>>, [i \in 1..MaxCols |-> i - 1], <<MaxCols - 1>>}}
    \cup {[op |-> op, t |-> t, nn |-> FALSE, set |-> [i \in 1..MaxCols |-> i - 1]] :
            op \in {"update", "upsert"}, t \in RunInsertTables}

\* The builder before buildFKChecksFor* in the statement st: the scope holds
\* the input columns, the fetched columns, the SET columns and the upsert
\* columns, in this order.
BeforeFKChecks(st) ==
    LET n == Len(st.t.cols)
        name(i) == <<"col", i>>
        inserts == st.op \in {"insert", "upsert"}
        fetches == st.op \in {"update", "upsert", "delete"}
        inputCols ==
            IF inserts
            THEN [i \in 1..n |-> ScopeCol(n + i, name(i - 1), "input", st.nn)]
            ELSE <<>>
        scanCols ==
            IF fetches
            THEN [i \in 1..n |->
                    ScopeCol(n + Len(inputCols) + i, name(i - 1), "scan",
                             ~st.t.cols[i].nullable)]
            ELSE <<>>
        fetched == Len(inputCols) + Len(scanCols)
        setCols ==
            [i \in 1..Len(st.set) |->
                ScopeCol(n + fetched + i, name(st.set[i]), "update", FALSE)]
        updated == fetched + Len(setCols)
        upsertCols ==
            IF st.op = "upsert"
            THEN [i \in 1..n |-> ScopeCol(n + updated + i, name(i - 1), "upsert", FALSE)]
            ELSE <<>>
        targets ==
            IF st.op = "insert" THEN [i \in 1..n |-> i]
            ELSE [i \in 1..Len(st.set) |-> st.set[i] + 1]
    IN
    /\ opName = st.op
    /\ tab = st.t
    /\ pc = "fk"
    /\ err = "none"
    /\ outScope = inputCols \o scanCols \o setCols \o upsertCols
    /\ nextColID = n + updated + Len(upsertCols) + 1
    /\ targetColList = targets
    /\ targetColSet = Range(targets)
    /\ insertOrds = [i \in 0..(n - 1) |-> IF inserts THEN i ELSE Unset]
    /\ fetchOrds = [i \in 0..(n - 1) |-> IF fetches THEN Len(inputCols) + i ELSE Unset]
    /\ updateOrds =
        [i \in 0..(n - 1) |->
            IF i \in Range(st.set) THEN fetched + PositionIn(st.set, i) - 1 ELSE Unset]
    /\ upsertOrds = [i \in 0..(n - 1) |-> IF st.op = "upsert" THEN updated + i ELSE Unset]
    /\ checkOrds = <<>>
    /\ canaryColID = IF st.op = "upsert" THEN n + Len(inputCols) + 1 ELSE 0
    /\ extraAccessibleCols = <<>>
    /\ distinctOn = {}
    /\ optimizerFKs = TRUE
    /\ checks = <<>>
    /\ fkFallback = FALSE
    /\ withID = 0
    /\ private = NoPrivate
    /\ resolved = <<>>
    /\ inputRows = {}
    /\ checkedRows = <<>>
    /\ inRows = <<>>
    /\ outRows = <<>>
    /\ projections = 0
    /\ addCol = {}
    /\ otherRows = <<>>
    /\ reportedRows = <<>>

InitRun == \E st \in RunStatements : BeforeFKChecks(st)

NextRun ==
    \/ BuildFKChecksForInsert
    \/ BuildFKChecksForUpdate
    \/ BuildFKChecksForUpsert
    \/ RunFKChecks

SpecRun == InitRun /\ [][NextRun]_vars

---------------------------------------------------------------------------
\* mapToReturnScopeOrd over every combination of role entries.

\* The table of the role combinations: MaxCols plain columns.
ResolveTable == MakeTable(PlainLayout, 0, 0, <<>>, <<>>)

\* The r-th role's entry for column c: unset, or a scope ordinal that no
\* other role and no other column uses (insert 0, fetch 1, update 2, upsert 3).
RoleEntries(r, c) == {Unset, r * MaxCols + c}
RoleArrays(r) ==
    {f \in [0..(MaxCols - 1) -> {Unset} \cup (0..(4 * MaxCols - 1))] :
        \A c \in 0..(MaxCols - 1) : f[c] \in RoleEntries(r, c)}

InitResolve ==
    /\ opName = "upsert"
    /\ tab = ResolveTable
    /\ pc = "resolve"
    /\ err = "none"
    /\ outScope = [i \in 1..(4 * MaxCols) |-> ScopeCol(i, NoName, "scan", FALSE)]
    /\ nextColID = 4 * MaxCols + 1
    /\ targetColList = <<>>
    /\ targetColSet = {}
    /\ insertOrds \in RoleArrays(0)
    /\ fetchOrds \in RoleArrays(1)
    /\ updateOrds \in RoleArrays(2)
    /\ upsertOrds \in RoleArrays(3)
    /\ checkOrds = <<>>
    /\ canaryColID = 0
    /\ extraAccessibleCols = <<>>
    /\ distinctOn = {}
    /\ optimizerFKs = TRUE
    /\ checks = <<>>
    /\ fkFallback = FALSE
    /\ withID = 0
    /\ private = NoPrivate
    /\ resolved = <<>>
    /\ inputRows = {}
    /\ checkedRows = <<>>
    /\ inRows = <<>>
    /\ outRows = <<>>
    /\ projections = 0
    /\ addCol = {}
    /\ otherRows = <<>>
    /\ reportedRows = <<>>

\* One call of mapToReturnScopeOrd: resolved records the column and the result.
MapToReturnScopeOrd ==
    /\ pc = "resolve"
    /\ \E tabOrd \in TabOrds : resolved' = <<tabOrd, mapToReturnScopeOrd(tabOrd)>>
    /\ UNCHANGED <<catalogVars, pc, err, outScope, nextColID, targetVars, roleVars,
                   canaryColID, extraAccessibleCols, distinctOn, fkVars, private,
                   execVars>>

NextResolve == MapToReturnScopeOrd

SpecResolve == InitResolve /\ [][NextResolve]_vars

---------------------------------------------------------------------------
\* C1: for every table column and every combination of set and unset
\* insert, fetch, update and upsert entries, mapToReturnScopeOrd returns the
\* upsert ordinal if it is set, otherwise the update ordinal if it is set,
\* otherwise the fetch ordinal if it is set, otherwise the insert ordinal.
ResolvePriority ==
    resolved # <<>> =>
        LET c == resolved[1]
            r == resolved[2]
        IN
        /\ upsertOrds[c] # Unset => r = upsertOrds[c]
        /\ upsertOrds[c] = Unset /\ updateOrds[c] # Unset => r = updateOrds[c]
        /\ upsertOrds[c] = Unset /\ updateOrds[c] = Unset /\ fetchOrds[c] # Unset
            => r = fetchOrds[c]
        /\ upsertOrds[c] = Unset /\ updateOrds[c] = Unset /\ fetchOrds[c] = Unset
            => r = insertOrds[c]

\* A column with the upsert entry unset and the other three set resolved to
\* its update ordinal.
ResolvePriorityWitness ==
    /\ resolved # <<>>
    /\ upsertOrds[resolved[1]] = Unset
    /\ updateOrds[resolved[1]] # Unset
    /\ fetchOrds[resolved[1]] # Unset
    /\ insertOrds[resolved[1]] # Unset
    /\ resolved[2] = updateOrds[resolved[1]]

---------------------------------------------------------------------------
\* The four roles mapToReturnScopeOrd reads, for one column.
FourRoles(i) == <<insertOrds[i], fetchOrds[i], updateOrds[i], upsertOrds[i]>>

---------------------------------------------------------------------------
\* The states in which addTargetCol is called, and in which
\* addSynthesizedCols is called.
TargetPcs == {"targets", "updTargets"}
SynthesizePcs == {"insDefaults", "insComputed", "updComputed"}

NoDuplicates(list) == \A i, j \in DOMAIN list : list[i] = list[j] => i = j
IsPrefix(a, b) == Len(a) <= Len(b) /\ \A i \in DOMAIN a : a[i] = b[i]
\* The column identifiers a step appended to the target list.
Appended == {targetColList'[k] : k \in (Len(targetColList) + 1)..Len(targetColList')}

\* C3: after any sequence of addTargetCol and addSynthesizedCols calls of a
\* statement the target list holds no column identifier twice and holds
\* exactly the identifiers of the target set; addSynthesizedCols only
\* appends to the list, and only columns that are not yet in it.
TargetListIsSet ==
    /\ [](NoDuplicates(targetColList) /\ Range(targetColList) = targetColSet)
    /\ [][(pc \in SynthesizePcs) =>
            /\ IsPrefix(targetColList, targetColList')
            /\ Appended \cap targetColSet = {}]_vars

\* addSynthesizedCols has added a column to a target list that already held
\* a column the statement names.
TargetListIsSetWitness ==
    /\ pc \in {"insRound", "updRoundComputed"}
    /\ \E k \in DOMAIN targetColList :
        outScope[(IF pc = "insRound" THEN insertOrds ELSE updateOrds)
                    [ColumnOrdinal(targetColList[k])] + 1].kind \in {"input", "update"}
    /\ \E k \in DOMAIN targetColList :
        outScope[(IF pc = "insRound" THEN insertOrds ELSE updateOrds)
                    [ColumnOrdinal(targetColList[k])] + 1].kind \in {"default", "computed"}

\* C4: addTargetCol for a column that is already in the target set fails
\* with the multiple-assignments error and leaves the target list and set
\* as they were; for a column not yet targeted that is neither a mutation
\* column nor computed it appends the column at the end of the list and
\* adds it to the set.
AddTargetColDuplicate ==
    /\ [](pc \in TargetPcs =>
            \A ord \in TabOrds :
                LET r == addTargetCol(ord) IN
                /\ ColumnID(ord) \in targetColSet =>
                    /\ r.err = "MultipleAssignments"
                    /\ r.list = targetColList
                    /\ r.set = targetColSet
                /\ (/\ ColumnID(ord) \notin targetColSet
                    /\ ~IsMutationColumn(ord)
                    /\ ~Column(ord).computed) =>
                    /\ r.err = "none"
                    /\ r.list = Append(targetColList, ColumnID(ord))
                    /\ r.set = targetColSet \cup {ColumnID(ord)})
    /\ [][(pc \in TargetPcs /\ err' = "MultipleAssignments") =>
            pc' = "error" /\ UNCHANGED targetVars]_vars

\* The statement named a column twice: the build stopped with the error and
\* the column is once in the list.
AddTargetColDuplicateWitness ==
    /\ pc = "error"
    /\ err = "MultipleAssignments"
    /\ Len(targetColList) = 1

\* C5: addTargetCol fails with the backfill (protected column) error for
\* every mutation column and with the cannot-write-to-computed-column error
\* for every computed column, with the target list and set as they were; a
\* mutation or computed column enters the target list only in
\* addSynthesizedCols.
AddTargetColProtected ==
    /\ [](pc \in TargetPcs =>
            \A ord \in TabOrds :
                LET r == addTargetCol(ord) IN
                /\ IsMutationColumn(ord) =>
                    r.err = "BackfillError" /\ r.list = targetColList /\ r.set = targetColSet
                /\ ~IsMutationColumn(ord) /\ Column(ord).computed =>
                    /\ r.err = "CannotWriteToComputedCol"
                    /\ r.list = targetColList
                    /\ r.set = targetColSet)
    /\ [][(/\ pc \in TargetPcs
           /\ err' \in {"BackfillError", "CannotWriteToComputedCol"})
            => pc' = "error" /\ UNCHANGED targetVars]_vars
    /\ [][(\E id \in Appended :
            IsMutationColumn(ColumnOrdinal(id)) \/ Column(ColumnOrdinal(id)).computed)
            => pc \in SynthesizePcs]_vars

\* The statement named a plain column and then a computed one: the build
\* stopped with the error and the list holds the plain column only.
AddTargetColProtectedWitness ==
    /\ pc = "error"
    /\ err = "CannotWriteToComputedCol"
    /\ Len(targetColList) = 1
    /\ \E ord \in TabOrds : ~IsMutationColumn(ord) /\ Column(ord).computed

---------------------------------------------------------------------------
\* The key of the i-th check, and a row's final (new) and fetched (old)
\* values of the key columns.
CheckedKey(i) ==
    IF checks[i].FKOutbound THEN tab.outbound[checks[i].FKOrdinal + 1]
    ELSE tab.inbound[checks[i].FKOrdinal + 1]
NewValues(i, r) == [k \in DOMAIN CheckedKey(i).cols |-> r[FinalColID(CheckedKey(i).cols[k])]]
OldValues(i, r) ==
    [k \in DOMAIN CheckedKey(i).cols |-> r[scopeOrdToColID(fetchOrds[CheckedKey(i).cols[k]])]]

\* C6: the rows that reach the anti-join of an insertion check are, for a
\* MATCH SIMPLE key, exactly the input rows in which no origin column is
\* null and, for a MATCH FULL key, exactly the input rows in which some
\* origin column is not null, whichever origin columns are known not to be
\* null.
InsertionCheckRows ==
    pc = "checked" =>
        \A i \in DOMAIN checks :
            checks[i].FKOutbound =>
                LET reaches(t) ==
                        IF CheckedKey(i).match = "SIMPLE"
                        THEN \A k \in DOMAIN t : t[k] # Null
                        ELSE \E k \in DOMAIN t : t[k] # Null
                IN
                checkedRows[i] =
                    {NewValues(i, r) : r \in {x \in inputRows : reaches(NewValues(i, x))}}

\* A MATCH FULL key on two columns, neither known not to be null: of the
\* rows (null, 2) and (null, null) only (null, 2) reached the anti-join.
InsertionCheckRowsWitness ==
    /\ pc = "checked"
    /\ opName = "insert"
    /\ CheckedKey(1).match = "FULL"
    /\ {NewValues(1, r) : r \in inputRows} = {<<Null, 2>>, <<Null, Null>>}
    /\ checkedRows[1] = {<<Null, 2>>}

\* C7: the input of a deletion check of UPDATE and UPSERT is the set
\* difference by value of the fetched key values and the final key values
\* of all input rows: a key value is in it if and only if some row has it as
\* its old value and no row has it as its new value.
DeletionCheckRows ==
    pc = "checked" /\ opName \in {"update", "upsert"} =>
        \A i \in DOMAIN checks :
            ~checks[i].FKOutbound =>
                \A v \in [DOMAIN CheckedKey(i).cols -> Values] :
                    v \in checkedRows[i] <=>
                        /\ \E r \in inputRows : OldValues(i, r) = v
                        /\ ~\E r \in inputRows : NewValues(i, r) = v

\* One row went from 1 to 2 and another from 2 to 1: no value is a
\* candidate.
DeletionCheckRowsWitness ==
    /\ pc = "checked"
    /\ opName \in {"update", "upsert"}
    /\ ~checks[1].FKOutbound
    /\ \E r1, r2 \in inputRows :
        /\ OldValues(1, r1) = <<1>> /\ NewValues(1, r1) = <<2>>
        /\ OldValues(1, r2) = <<2>> /\ NewValues(1, r2) = <<1>>
    /\ checkedRows[1] = {}

---------------------------------------------------------------------------
\* The builder has run buildFKChecksFor* with the session's flag on.
AfterFKChecks ==
    /\ optimizerFKs
    /\ \/ pc \in {"private", "done"}
       \/ pc = "error" /\ err \in {"NilPointerDereference", "AssertionFailure"}

Outbounds == 0..(OutboundForeignKeyCount - 1)
Inbounds == 0..(InboundForeignKeyCount - 1)
\* The inbound keys whose origin table resolves.
ResolvedInbounds == {i \in Inbounds : ~tab.inbound[i + 1].adding}
\* The positions in mb.checks of the insertion checks of outbound key i and
\* of the deletion checks of inbound key i.
InsertionChecksOf(i) ==
    {k \in DOMAIN checks :
        checks[k].FKOutbound /\ checks[k].FKOrdinal = i /\ checks[k].join = "anti"}
DeletionChecksOf(i) ==
    {k \in DOMAIN checks :
        ~checks[k].FKOutbound /\ checks[k].FKOrdinal = i /\ checks[k].join = "semi"}

\* C8: a DELETE with the generated checks enabled.  If the delete action of
\* every inbound key whose origin table resolves is RESTRICT or NO ACTION,
\* the checks are one deletion check per such key, in the order of the key
\* ordinals, and the fallback flag is false; if some such key has another
\* delete action, wherever it stands among the keys, the check list is
\* empty and the fallback flag is true.
DeleteFKChecks ==
    opName = "delete" /\ optimizerFKs /\ pc # "input" /\ pc # "fk" =>
        /\ pc # "error"
        /\ IF \A i \in ResolvedInbounds : tab.inbound[i + 1].deleteAction \in {"Restrict", "NoAction"}
           THEN /\ ~fkFallback
                /\ Len(checks) = Cardinality(ResolvedInbounds)
                /\ \A k \in DOMAIN checks :
                    /\ checks[k].FKOrdinal \in ResolvedInbounds
                    /\ checks[k].join = "semi"
                    /\ ~checks[k].FKOutbound
                    /\ checks[k].input.op = "with-scan"
                    /\ \A l \in DOMAIN checks : k < l => checks[k].FKOrdinal < checks[l].FKOrdinal
           ELSE checks = <<>> /\ fkFallback

\* A DELETE on a table with two inbound keys, the first NO ACTION and the
\* second not: no check, and the fallback.
DeleteFKChecksWitness ==
    /\ opName = "delete"
    /\ optimizerFKs
    /\ pc = "done"
    /\ InboundForeignKeyCount = 2
    /\ tab.inbound[1].deleteAction \in {"Restrict", "NoAction"}
    /\ ~tab.inbound[2].adding /\ tab.inbound[2].deleteAction \notin {"Restrict", "NoAction"}
    /\ checks = <<>>
    /\ fkFallback
    /\ private.FKFallback

\* C9: an UPDATE with the generated checks enabled builds an insertion check
\* for an outbound key if and only if one of the key's origin columns has
\* its update role set, and the check reads the final value of every origin
\* column (the update column if set, else the fetched column); an inbound
\* key none of whose referenced columns has its update role set yields no
\* check and never the fallback, whatever its update action.
UpdateFKChecks ==
    opName = "update" /\ AfterFKChecks =>
        /\ ~fkFallback =>
            \A i \in Outbounds :
                /\ InsertionChecksOf(i) # {} <=> outboundFKColsUpdated(i)
                /\ \A k \in InsertionChecksOf(i) :
                    checks[k].input.inCols =
                        [j \in DOMAIN tab.outbound[i + 1].cols |->
                            LET c == tab.outbound[i + 1].cols[j] IN
                            scopeOrdToColID(IF updateOrds[c] # Unset THEN updateOrds[c]
                                            ELSE fetchOrds[c])]
        /\ \A i \in Inbounds : ~inboundFKColsUpdated(i) => DeletionChecksOf(i) = {}
        /\ fkFallback =>
            \E i \in Inbounds :
                inboundFKColsUpdated(i) /\ tab.inbound[i + 1].updateAction \notin {"Restrict", "NoAction"}

\* C10: an UPSERT with the generated checks enabled and no fallback builds
\* one insertion check for every outbound key, whether or not a column of
\* the key is in the update role, and a deletion check on the set
\* difference for exactly the inbound keys (whose origin table resolves)
\* that have a referenced column in the update role.
UpsertFKChecks ==
    opName = "upsert" /\ AfterFKChecks /\ ~fkFallback =>
        /\ \A i \in Outbounds : Cardinality(InsertionChecksOf(i)) = 1
        /\ \A i \in ResolvedInbounds :
            /\ DeletionChecksOf(i) # {} <=> inboundFKColsUpdated(i)
            /\ \A k \in DeletionChecksOf(i) : checks[k].input.op = "except"
        /\ \A i \in Inbounds \ ResolvedInbounds : DeletionChecksOf(i) = {}

\* C11: a foreign key, outbound or inbound, whose other table the catalog
\* reports as being added yields no check and no error, and the other keys
\* of the statement are processed as usual: an INSERT builds one insertion
\* check for every other outbound key, and a DELETE that does not fall back
\* one deletion check for every other inbound key.
BeingCreatedKeysIgnored ==
    optimizerFKs =>
        /\ err # "NilPointerDereference"
        /\ AfterFKChecks =>
            /\ \A i \in Outbounds : tab.outbound[i + 1].adding => InsertionChecksOf(i) = {}
            /\ \A i \in Inbounds : tab.inbound[i + 1].adding => DeletionChecksOf(i) = {}
            /\ opName = "insert" =>
                \A i \in Outbounds :
                    ~tab.outbound[i + 1].adding => Cardinality(InsertionChecksOf(i)) = 1
            /\ opName = "delete" /\ ~fkFallback =>
                \A i \in ResolvedInbounds : Cardinality(DeletionChecksOf(i)) = 1

---------------------------------------------------------------------------
\* C12: the private of the mutation operator carries a non-zero binding
\* (WithID) if and only if the final list of checks is not empty; with no
\* check built, or all of them abandoned to the fallback, it carries none,
\* even when the builder had reserved one.
BufferedIffChecks ==
    pc = "done" =>
        /\ private.WithID # 0 <=> Len(checks) > 0
        /\ Len(checks) > 0 => private.WithID = withID /\ withID # 0

\* A build that reserved a binding and then abandoned its checks to the
\* fallback: the private carries no binding.
BufferedIffChecksWitness ==
    /\ pc = "done"
    /\ withID # 0
    /\ fkFallback
    /\ checks = <<>>
    /\ private.WithID = 0

\* The number of foreign keys a statement kind looks at: INSERT the outbound
\* keys, DELETE the inbound keys, UPDATE and UPSERT both.
RelevantFKs ==
    CASE opName = "insert" -> OutboundForeignKeyCount
      [] opName = "delete" -> InboundForeignKeyCount
      [] OTHER -> OutboundForeignKeyCount + InboundForeignKeyCount

\* C13 as stated: with the session's flag off, a statement on a table with
\* any foreign key, inbound or outbound, ends with the fallback flag set, no
\* check and no binding reserved, and on a table with no key the flag stays
\* false.
FlagOffAnyKeyFallback ==
    ~optimizerFKs /\ pc \in {"private", "done"} =>
        IF OutboundForeignKeyCount + InboundForeignKeyCount > 0
        THEN fkFallback /\ checks = <<>> /\ withID = 0
        ELSE ~fkFallback

\* C13, amended: with the session's flag off, a statement ends with the
\* fallback flag set, no check and no binding reserved when the table has a
\* key its kind looks at (an outbound key for INSERT, an inbound key for
\* DELETE, either for UPDATE and UPSERT); otherwise the flag stays false.
FlagOffFallback ==
    ~optimizerFKs /\ pc \in {"private", "done"} =>
        /\ checks = <<>>
        /\ withID = 0
        /\ fkFallback <=> RelevantFKs > 0
        /\ pc = "done" => private.FKFallback = fkFallback /\ private.WithID = 0

\* An INSERT with the flag off on a table with an outbound key: fallback.
FlagOffFallbackWitness ==
    /\ ~optimizerFKs
    /\ opName = "insert"
    /\ OutboundForeignKeyCount > 0
    /\ pc = "done"
    /\ fkFallback
    /\ private.FKFallback
    /\ checks = <<>>
    /\ withID = 0

---------------------------------------------------------------------------
\* Execution of the input of an UPDATE: the rows it yields.

\* The rows of the target table and of the FROM source are numbered from 1;
\* a target row holds its number in every column (the primary key is
\* unique), a FROM row holds its number in the FROM column.
RowKeys == 1..MaxRows

\* The WHERE clause over a joined pair: every pair, the pairs that agree,
\* or the pairs that differ.
Wheres == {"true", "equal", "different"}
WherePasses(w, t, f) ==
    CASE w = "true" -> TRUE
      [] w = "equal" -> t = f
      [] w = "different" -> t # f

\* The row of the input for target row t joined with FROM row f.
JoinedRow(t, f) ==
    [o \in DOMAIN outScope |-> IF outScope[o].kind = "from" THEN f ELSE t]

\* DistinctOn over the grouping columns: the sets that hold exactly one row
\* of every group.
DistinctOnRows(groupCols, rows) ==
    LET ords == {o \in DOMAIN outScope : outScope[o].id \in groupCols}
        SameGroup(r1, r2) == \A o \in ords : r1[o] = r2[o]
    IN
    {kept \in SUBSET rows :
        /\ \A r \in rows : \E k \in kept : SameGroup(r, k)
        /\ \A k1, k2 \in kept : SameGroup(k1, k2) => k1 = k2}

\* The input buildInputForUpdate built runs: scan, inner join with the FROM
\* source if there is one, WHERE, and the DistinctOn if one was built.
RunUpdateInput ==
    /\ pc = "updTargets"
    /\ opName = "update"
    /\ \E targetRows \in SUBSET RowKeys, fromRows \in SUBSET RowKeys, w \in Wheres :
        LET fromClausePresent == extraAccessibleCols # <<>>
            joined ==
                IF fromClausePresent
                THEN {JoinedRow(p[1], p[2]) :
                        p \in {q \in targetRows \X fromRows : WherePasses(w, q[1], q[2])}}
                ELSE {JoinedRow(t, Null) : t \in targetRows}
        IN
        /\ fromClausePresent \/ (fromRows = {} /\ w = "true")
        /\ IF distinctOn = {}
           THEN inputRows' = joined
           ELSE inputRows' \in DistinctOnRows(distinctOn, joined)
    /\ pc' = "inputRun"
    /\ UNCHANGED <<catalogVars, err, outScope, nextColID, targetVars, roleVars,
                   canaryColID, extraAccessibleCols, distinctOn, fkVars,
                   private, resolved, checkedRows, valuesVars, joinVars, layerVars>>

InputTables ==
    HiddenKeyTables \cup
    {MakeTable(pub, m, 0, <<>>, <<>>) : pub \in NullLayouts, m \in {0, MaxMutationCols}}

InitInput == \E t \in InputTables : InitBuilder("update", t, TRUE)

NextInput ==
    \/ BuildInputForUpdate
    \/ RunUpdateInput

SpecInput == InitInput /\ [][NextInput]_vars

\* C14: the input of an UPDATE with a FROM clause has a DistinctOn over the
\* primary key columns, and yields at most one row for every row of the
\* target table, however many FROM rows join with it.
UpdateFromDeduplicated ==
    opName = "update" /\ extraAccessibleCols # <<>> =>
        /\ pc # "input" => distinctOn # {}
        /\ pc = "inputRun" =>
            \A r1, r2 \in inputRows : r1[1] = r2[1] => r1 = r2

---------------------------------------------------------------------------
\* C15: right after buildInputForUpdate or buildInputForDelete the fetch
\* role of every table column, mutation columns included, is the scope
\* column the scan of the target table produced for it; no column of a FROM
\* source or of ORDER BY is in the fetch role; and the insert, update,
\* upsert and check roles are unset.  Once the SET columns of the UPDATE
\* have their values, a column that is set resolves through its update
\* role and every other column through its fetch role.
FetchRolesAfterInput ==
    /\ (opName = "update" /\ pc = "updTargets") \/ (opName = "delete" /\ pc = "fk") =>
        /\ \A i \in TabOrds :
            /\ fetchOrds[i] = i
            /\ outScope[i + 1].kind = "scan"
            /\ outScope[i + 1].name = ColName(i)
        /\ \A o \in DOMAIN outScope :
            outScope[o].kind # "scan" => \A i \in TabOrds : fetchOrds[i] # o - 1
        /\ \A i \in TabOrds :
            insertOrds[i] = Unset /\ updateOrds[i] = Unset /\ upsertOrds[i] = Unset
        /\ \A c \in DOMAIN checkOrds : checkOrds[c] = Unset
    /\ opName = "update" /\ pc = "updRound" =>
        \A i \in TabOrds :
            IF ColumnID(i) \in targetColSet
            THEN /\ updateOrds[i] # Unset
                 /\ mapToReturnScopeOrd(i) = updateOrds[i]
                 /\ outScope[updateOrds[i] + 1].kind = "update"
            ELSE /\ mapToReturnScopeOrd(i) = i
                 /\ outScope[i + 1].kind = "scan"

\* UPDATE t SET c1 = ... FROM u on a table with mutation columns: c0 and
\* the mutation columns resolve through fetch, c1 through update, and the
\* FROM column is in the scope and in no role.
FetchRolesAfterInputWitness ==
    /\ opName = "update"
    /\ pc = "updRound"
    /\ DeletableColumnCount > ColumnCount
    /\ ColumnCount = 2
    /\ targetColList = <<ColumnID(1)>>
    /\ extraAccessibleCols # <<>>
    /\ mapToReturnScopeOrd(0) = fetchOrds[0]
    /\ mapToReturnScopeOrd(1) = updateOrds[1]
    /\ mapToReturnScopeOrd(DeletableColumnCount - 1) = fetchOrds[DeletableColumnCount - 1]
    /\ fetchOrds[DeletableColumnCount - 1] # Unset

---------------------------------------------------------------------------
\* replaceDefaultExprs: the DEFAULT specifiers of a VALUES clause.

\* A VALUES clause has at most this many rows.
MaxValuesRows == 2

\* Value expressions: the DEFAULT specifier (tree.DefaultVal), a literal of
\* the statement, tree.DNull, and the stored default or computed expression
\* of a table column as the parser returns it.
DefaultVal == <<"DEFAULT">>
Literal == <<"literal", 1>>
DNull == <<"NULL">>
DefaultExpr(ord) == <<"default-expr", ord>>
ComputedExpr(ord) == <<"computed-expr", ord>>

\* The input rows of an INSERT (tree.Select): a VALUES clause or another
\* SELECT, with or without a WITH, ORDER BY or LIMIT modifier, in
\* parentheses or not.
ValuesClause(rows) == [stmt |-> "values", modifiers |-> FALSE, parens |-> FALSE, rows |-> rows]
Nil == <<>>

\* extractValuesInput: the rows of a VALUES clause with no modifier,
\* parentheses discarded, or nil.
extractValuesInput(sel) ==
    IF sel.modifiers THEN Nil
    ELSE IF sel.stmt = "values" THEN sel.rows
    ELSE Nil

\* checkNumCols with the two messages exchanged.
checkNumColsExchanged(expected, actual) ==
    IF actual = expected THEN "none"
    ELSE IF actual < expected THEN "MoreExpressionsThanTargetColumns"
    ELSE "MoreTargetColumnsThanExpressions"

\* checkNumCols: the error it panics with, or "none".
checkNumCols(expected, actual) ==
    IF actual = expected THEN "none"
    ELSE IF actual < expected THEN "MoreTargetColumnsThanExpressions"
    ELSE "MoreExpressionsThanTargetColumns"

\* parseDefaultOrComputedExpr without the computed case.
parseDefaultOnly(colID) ==
    LET ord == ColumnOrdinal(colID) IN
    IF Column(ord).hasDefault THEN DefaultExpr(ord)
    ELSE DNull

\* parseDefaultOrComputedExpr: the parsed expression of the column (the
\* cache of parsed expressions returns the same expression again).
parseDefaultOrComputedExpr(colID) ==
    LET ord == ColumnOrdinal(colID) IN
    IF Column(ord).computed THEN ComputedExpr(ord)
    ELSE IF Column(ord).hasDefault THEN DefaultExpr(ord)
    ELSE DNull

\* A slice the code creates lazily: nil until set.
NilSlice == [set |-> FALSE, elems |-> <<>>]

\* The inner loop of replaceDefaultExprs from entry itup of the tuple on;
\* newTuple is nil until the first DEFAULT of the tuple is found.
RECURSIVE replaceTupleFrom(_, _, _)
replaceTupleFrom(itup, tuple, newTuple) ==
    IF itup > Len(tuple) THEN newTuple
    ELSE LET isDefault == tuple[itup] = DefaultVal
             val == IF isDefault
                    THEN parseDefaultOrComputedExpr(targetColList[itup])
                    ELSE tuple[itup]
             copied == IF isDefault /\ ~newTuple.set
                       THEN [set |-> TRUE, elems |-> SubSeq(tuple, 1, itup - 1)]
                       ELSE newTuple
         IN replaceTupleFrom(itup + 1, tuple,
                IF copied.set THEN [copied EXCEPT !.elems = Append(@, val)]
                ELSE copied)

\* The outer loop from row irow on; newRows is nil until the first DEFAULT
\* of the clause is found, err the error of reportValuesLenError.
RECURSIVE replaceRowsFrom(_, _, _, _)
replaceRowsFrom(irow, rows, numCols, newRows) ==
    IF irow > Len(rows) THEN [newRows |-> newRows, err |-> "none"]
    ELSE IF Len(rows[irow]) # numCols
    THEN [newRows |-> newRows, err |-> "ValuesLenError"]
    ELSE LET newTuple == replaceTupleFrom(1, rows[irow], NilSlice)
             copied == IF newTuple.set /\ ~newRows.set
                       THEN [set |-> TRUE, elems |-> SubSeq(rows, 1, irow - 1)]
                       ELSE newRows
         IN replaceRowsFrom(irow + 1, rows, numCols,
                IF copied.set
                THEN [copied EXCEPT !.elems =
                        Append(@, IF newTuple.set THEN newTuple.elems ELSE rows[irow])]
                ELSE copied)

\* replaceDefaultExprs: the error it panics with, or "none", and the rows
\* it returns.
replaceDefaultExprs(sel) ==
    LET values == extractValuesInput(sel) IN
    IF values = Nil THEN [err |-> "none", rows |-> sel]
    ELSE LET numCols == Len(values[1])
             arity == checkNumCols(Len(targetColList), numCols)
             r == replaceRowsFrom(1, values, numCols, NilSlice)
         IN
         IF arity # "none" THEN [err |-> arity, rows |-> Nil]
         ELSE IF r.err # "none" THEN [err |-> r.err, rows |-> Nil]
         ELSE IF r.newRows.set
         THEN [err |-> "none", rows |-> ValuesClause(r.newRows.elems)]
         ELSE [err |-> "none", rows |-> sel]

ReplaceDefaultExprs ==
    /\ pc = "replaceDefaults"
    /\ LET r == replaceDefaultExprs(inRows) IN
       /\ outRows' = r.rows
       /\ err' = r.err
       /\ pc' = IF r.err = "none" THEN "replaced" ELSE "error"
    /\ UNCHANGED <<catalogVars, outScope, nextColID, targetVars, roleVars,
                   canaryColID, extraAccessibleCols, distinctOn, fkVars,
                   private, resolved, inputRows, checkedRows, inRows,
                   layerVars, joinVars>>

\* The inputs: tables of MaxCols columns of which the first is of any kind,
\* target lists (a prefix of the columns, the last column, or all columns
\* in reverse), and input rows.
ValuesTables ==
    {MakeTable([i \in 1..MaxCols |-> IF i = 1 THEN k ELSE PlainCol], 0, 0, <<>>, <<>>) :
        k \in ColKinds}
TargetLists ==
    {[i \in 1..n |-> i] : n \in 1..MaxCols}
        \cup {<<MaxCols>>, [i \in 1..MaxCols |-> MaxCols + 1 - i]}
\* A row has at most one entry more than the table has columns.
Tuples == NonEmptySeqsUpTo({DefaultVal, Literal}, MaxCols + 1)
PlainValues == {ValuesClause(rows) : rows \in NonEmptySeqsUpTo(Tuples, MaxValuesRows)}
SelectInputs ==
    PlainValues
        \cup {[c EXCEPT !.parens = TRUE] : c \in {v \in PlainValues : Len(v.rows) = 1}}
        \cup {[c EXCEPT !.modifiers = TRUE] : c \in {v \in PlainValues : Len(v.rows) = 1}}
        \cup {[stmt |-> "select", modifiers |-> FALSE, parens |-> FALSE, rows |-> <<>>]}

\* The builder of an INSERT at the call of replaceDefaultExprs: the target
\* columns are named, nothing else is built.
InitValues ==
    \E t \in ValuesTables, targets \in TargetLists, sel \in SelectInputs :
        /\ opName = "insert"
        /\ tab = t
        /\ pc = "replaceDefaults"
        /\ err = "none"
        /\ outScope = <<>>
        /\ nextColID = Len(t.cols) + 1
        /\ targetColList = targets
        /\ targetColSet = Range(targets)
        /\ insertOrds = [i \in 0..(Len(t.cols) - 1) |-> Unset]
        /\ fetchOrds = [i \in 0..(Len(t.cols) - 1) |-> Unset]
        /\ updateOrds = [i \in 0..(Len(t.cols) - 1) |-> Unset]
        /\ upsertOrds = [i \in 0..(Len(t.cols) - 1) |-> Unset]
        /\ checkOrds = [i \in 0..(t.checkCount - 1) |-> Unset]
        /\ canaryColID = 0
        /\ extraAccessibleCols = <<>>
        /\ distinctOn = {}
        /\ optimizerFKs = TRUE
        /\ checks = <<>>
        /\ fkFallback = FALSE
        /\ withID = 0
        /\ private = NoPrivate
        /\ resolved = <<>>
        /\ inputRows = {}
        /\ checkedRows = <<>>
        /\ inRows = sel
        /\ outRows = <<>>
        /\ projections = 0
        /\ addCol = {}
        /\ otherRows = <<>>
        /\ reportedRows = <<>>

NextValues == ReplaceDefaultExprs

SpecValues == InitValues /\ [][NextValues]_vars

\* The stored expression of a table column: its computed expression, else
\* its default expression, else NULL.
StoredExpr(colID) ==
    IF tab.cols[colID].computed THEN <<"computed-expr", colID - 1>>
    ELSE IF tab.cols[colID].hasDefault THEN <<"default-expr", colID - 1>>
    ELSE <<"NULL">>

IsPlainValues == inRows # <<>> /\ inRows.stmt = "values" /\ ~inRows.modifiers
HasDefaultVal ==
    \E r \in DOMAIN inRows.rows : \E i \in DOMAIN inRows.rows[r] :
        inRows.rows[r][i] = <<"DEFAULT">>

\* C16: replaceDefaultExprs returns its input unchanged when the input is
\* not a plain VALUES clause or holds no DEFAULT; otherwise it returns a
\* VALUES clause with as many rows, of the same lengths, in which every
\* DEFAULT at position i is the stored expression of the i-th target column
\* and every other entry is the input's.
ReplaceDefaults ==
    pc = "replaced" =>
        IF ~IsPlainValues \/ ~HasDefaultVal
        THEN outRows = inRows
        ELSE /\ outRows.stmt = "values"
             /\ Len(outRows.rows) = Len(inRows.rows)
             /\ \A r \in DOMAIN inRows.rows :
                 /\ Len(outRows.rows[r]) = Len(inRows.rows[r])
                 /\ \A i \in DOMAIN inRows.rows[r] :
                     outRows.rows[r][i] =
                         IF inRows.rows[r][i] = <<"DEFAULT">>
                         THEN StoredExpr(targetColList[i])
                         ELSE inRows.rows[r][i]

\* INSERT INTO t (c1, c0) VALUES (lit, lit), (lit, DEFAULT) where c0 is a
\* computed column: the DEFAULT becomes the computed expression of c0.
ReplaceDefaultsWitness ==
    /\ pc = "replaced"
    /\ targetColList = <<2, 1>>
    /\ tab.cols[1].computed
    /\ inRows = [stmt |-> "values", modifiers |-> FALSE, parens |-> FALSE,
                 rows |-> << <<Literal, Literal>>, <<Literal, DefaultVal>> >>]
    /\ outRows.rows = << <<Literal, Literal>>, <<Literal, <<"computed-expr", 0>> >> >>

---------------------------------------------------------------------------
\* roundDecimalValues over every role array, and the values it projects.

\* Decimal values carry at most this many fractional digits.
MaxScale == 2

RECURSIVE Pow10(_)
Pow10(n) == IF n <= 0 THEN 1 ELSE 10 * Pow10(n - 1)

\* Decimal values, in units of 10^-MaxScale.
DecimalValues == (-Pow10(MaxScale))..Pow10(MaxScale)

\* crdb_internal.round_decimal_values(v, scale): v rounded to scale
\* fractional digits, halves away from zero (of an array, every element).
RoundToScale(v, scale) ==
    LET u == Pow10(MaxScale - scale)
        a == IF v < 0 THEN -v ELSE v
        q == ((a + (u \div 2)) \div u) * u
    IN IF v < 0 THEN -q ELSE q

\* The value a scope column projects for the input value v.
RECURSIVE ApplyWraps(_, _)
ApplyWraps(wraps, v) ==
    IF wraps = <<>> THEN v
    ELSE ApplyWraps(Tail(wraps), RoundToScale(v, Head(wraps)))
ProjectedValue(col, v) == ApplyWraps(col.wraps, v)

\* Column types: DECIMAL(10,2), DECIMAL(10,1), DECIMAL(10), DECIMAL,
\* DECIMAL(10,1)[], a computed DECIMAL(10,1), INT and a computed INT.
Decimal1 == [DecimalCol EXCEPT !.width = 1]
Decimal0 == [DecimalCol EXCEPT !.width = 0]
DecimalUnbounded == [DecimalCol EXCEPT !.precision = 0, !.width = 0]
DecimalArray1 == [Decimal1 EXCEPT !.typ = "decimal[]"]
ComputedDecimal1 == [Decimal1 EXCEPT !.computed = TRUE]
RoundKinds ==
    {PlainCol, ComputedCol, DecimalCol, Decimal1, Decimal0, DecimalUnbounded,
     DecimalArray1, ComputedDecimal1}
RoundTables ==
    {MakeTable(pub, 0, 0, <<>>, <<>>) : pub \in [1..MaxCols -> RoundKinds]}

\* The builder at a call of roundDecimalValues(mb.insertOrds, ...): the
\* scope holds an input column for every column in mutated, in table order,
\* and one more column that is in no role.
BeforeRound(t, mutated) ==
    LET pos(i) == Cardinality({j \in mutated : j < i})
        n == Cardinality(mutated)
        ordOf(k) == CHOOSE i \in mutated : pos(i) = k - 1
    IN
    /\ opName = "insert"
    /\ tab = t
    /\ pc = "round"
    /\ err = "none"
    /\ outScope =
        [k \in 1..n |-> ScopeCol(Len(t.cols) + k, <<"col", ordOf(k)>>, "input", FALSE)]
            \o <<ScopeCol(Len(t.cols) + n + 1, <<>>, "other", FALSE)>>
    /\ nextColID = Len(t.cols) + n + 2
    /\ targetColList = [k \in 1..n |-> ordOf(k) + 1]
    /\ targetColSet = {i + 1 : i \in mutated}
    /\ insertOrds = [i \in 0..(Len(t.cols) - 1) |-> IF i \in mutated THEN pos(i) ELSE Unset]
    /\ fetchOrds = [i \in 0..(Len(t.cols) - 1) |-> Unset]
    /\ updateOrds = [i \in 0..(Len(t.cols) - 1) |-> Unset]
    /\ upsertOrds = [i \in 0..(Len(t.cols) - 1) |-> Unset]
    /\ checkOrds = <<>>
    /\ canaryColID = 0
    /\ extraAccessibleCols = <<>>
    /\ distinctOn = {}
    /\ optimizerFKs = TRUE
    /\ checks = <<>>
    /\ fkFallback = FALSE
    /\ withID = 0
    /\ private = NoPrivate
    /\ resolved = <<>>
    /\ inputRows = {}
    /\ checkedRows = <<>>
    /\ inRows = <<>>
    /\ outRows = <<>>
    /\ projections = 0
    /\ addCol = {}
    /\ otherRows = <<>>
    /\ reportedRows = <<>>

InitRound == \E t \in RoundTables, mutated \in SUBSET (0..(MaxCols - 1)) : BeforeRound(t, mutated)

\* One call of roundDecimalValues on mb.insertOrds: the pass over the
\* non-computed columns, the pass over the computed columns after it, or
\* the same pass a second time.
RoundDecimalValuesPass ==
    /\ pc \in {"round", "roundedPlain", "roundedComputed"}
    /\ \E roundComputedCols \in BOOLEAN :
        /\ pc = "roundedComputed" => roundComputedCols
        /\ LET r == roundDecimalValues(insertOrds, roundComputedCols) IN
           /\ outScope' = r.cols
           /\ nextColID' = nextColID + r.n
           /\ projections' = projections + (IF r.n > 0 THEN 1 ELSE 0)
        /\ pc' = CASE pc = "round" ->
                        IF roundComputedCols THEN "roundedComputed" ELSE "roundedPlain"
                   [] pc = "roundedPlain" ->
                        IF roundComputedCols THEN "roundedBoth" ELSE "roundedTwice"
                   [] pc = "roundedComputed" -> "roundedTwice"
    /\ UNCHANGED <<catalogVars, err, targetVars, roleVars, canaryColID,
                   extraAccessibleCols, distinctOn, fkVars, private, resolved,
                   inputRows, checkedRows, valuesVars, joinVars, addCol>>

NextRound == RoundDecimalValuesPass

SpecRound == InitRound /\ [][NextRound]_vars

\* C18: a second call of roundDecimalValues with the same role array and
\* the same roundComputedCols leaves, for every scope column and every
\* input value, the projected value the first call left.
RoundingIdempotent ==
    [][(pc' = "roundedTwice") =>
        /\ Len(outScope') = Len(outScope)
        /\ \A o \in DOMAIN outScope : \A v \in DecimalValues :
            ProjectedValue(outScope'[o], v) = ProjectedValue(outScope[o], v)]_vars

\* A DECIMAL(10,1) column rounded twice.
RoundingIdempotentWitness ==
    /\ pc = "roundedTwice"
    /\ \E o \in DOMAIN outScope :
        /\ outScope[o].wraps = <<1, 1>>
        /\ ProjectedValue(outScope[o], 15) = 20

\* The column's type is DECIMAL or DECIMAL[] with a declared precision.
BoundedDecimal(i) ==
    /\ tab.cols[i + 1].typ \in {"decimal", "decimal[]"}
    /\ tab.cols[i + 1].precision # 0

\* C19: a call of roundDecimalValues rewrites the scope column of a table
\* column exactly when the column's role entry is set, its type is a
\* bounded DECIMAL or DECIMAL[] and it is computed exactly if
\* roundComputedCols is true, wrapping it in one rounding call with the
\* column's declared scale; it leaves every other scope column as it was.
\* After the pass over the non-computed and the pass over the computed
\* columns every such column is wrapped exactly once.
RoundsQualifying ==
    /\ [][(pc \in {"round", "roundedPlain", "roundedComputed"}) =>
            LET flag == pc = "roundedComputed"
                            \/ pc' \in {"roundedComputed", "roundedBoth"}
                Rewritten(o) ==
                    \E i \in TabOrds :
                        /\ insertOrds[i] = o - 1
                        /\ BoundedDecimal(i)
                        /\ tab.cols[i + 1].computed = flag
            IN
            \A o \in DOMAIN outScope :
                IF Rewritten(o)
                THEN \E i \in TabOrds :
                        /\ insertOrds[i] = o - 1
                        /\ outScope'[o].wraps = Append(outScope[o].wraps, tab.cols[i + 1].width)
                        /\ outScope'[o].id >= nextColID
                        /\ outScope'[o].name = outScope[o].name
                ELSE outScope'[o] = outScope[o]]_vars
    /\ [](pc = "roundedBoth" =>
            /\ \A i \in TabOrds :
                insertOrds[i] # Unset =>
                    outScope[insertOrds[i] + 1].wraps =
                        IF BoundedDecimal(i) THEN <<tab.cols[i + 1].width>> ELSE <<>>
            /\ outScope[Len(outScope)].wraps = <<>>)

\* A DECIMAL(10,2) column and a computed DECIMAL(10,1) column, both
\* mutated, after the two passes.
RoundsQualifyingWitness ==
    /\ pc = "roundedBoth"
    /\ tab.cols[1] = DecimalCol
    /\ tab.cols[2] = ComputedDecimal1
    /\ insertOrds[0] = 0 /\ insertOrds[1] = 1
    /\ outScope[1].wraps = <<2>>
    /\ outScope[2].wraps = <<1>>
    /\ outScope[3].wraps = <<>>

---------------------------------------------------------------------------
\* makeMutationPrivate over every combination of fetch and update entries.

\* Tables of MaxCols plain columns, without and with mutation columns.
PrivateTables == {MakeTable(PlainLayout, m, 0, <<>>, <<>>) : m \in {0, MaxMutationCols}}

\* The r-th role's array over n table columns: every entry unset or a scope
\* ordinal of its own (fetch 0, update 1).
PrivateRoleArrays(r, n) ==
    {[c \in 0..(n - 1) |-> IF c \in set THEN r * n + c ELSE Unset] :
        set \in SUBSET (0..(n - 1))}

\* The builder of an UPDATE at the call of makeMutationPrivate.
BeforePrivate(t, fetch, update) ==
    /\ opName = "update"
    /\ tab = t
    /\ pc = "private"
    /\ err = "none"
    /\ outScope =
        [i \in 1..(2 * Len(t.cols)) |-> ScopeCol(Len(t.cols) + i, NoName, "scan", FALSE)]
    /\ nextColID = 3 * Len(t.cols) + 1
    /\ targetColList = <<>>
    /\ targetColSet = {}
    /\ insertOrds = [i \in 0..(Len(t.cols) - 1) |-> Unset]
    /\ fetchOrds = fetch
    /\ updateOrds = update
    /\ upsertOrds = [i \in 0..(Len(t.cols) - 1) |-> Unset]
    /\ checkOrds = <<>>
    /\ canaryColID = 0
    /\ extraAccessibleCols = <<>>
    /\ distinctOn = {}
    /\ optimizerFKs = TRUE
    /\ checks = <<>>
    /\ fkFallback = FALSE
    /\ withID = 0
    /\ private = NoPrivate
    /\ resolved = <<>>
    /\ inputRows = {}
    /\ checkedRows = <<>>
    /\ inRows = <<>>
    /\ outRows = <<>>
    /\ projections = 0
    /\ addCol = {}
    /\ otherRows = <<>>
    /\ reportedRows = <<>>

InitPrivate ==
    \E t \in PrivateTables :
        \E fetch \in PrivateRoleArrays(0, Len(t.cols)),
           update \in PrivateRoleArrays(1, Len(t.cols)) :
            BeforePrivate(t, fetch, update)

NextPrivate == MakeMutationPrivate

SpecPrivate == InitPrivate /\ [][NextPrivate]_vars

\* No role gives the column a value.
Unreferenced(i) ==
    /\ insertOrds[i] = Unset /\ fetchOrds[i] = Unset
    /\ updateOrds[i] = Unset /\ upsertOrds[i] = Unset

\* The column ID of the scope column that holds the final value of column i.
FinalValueColID(i) ==
    outScope[(IF upsertOrds[i] # Unset THEN upsertOrds[i]
              ELSE IF updateOrds[i] # Unset THEN updateOrds[i]
              ELSE IF fetchOrds[i] # Unset THEN fetchOrds[i]
              ELSE insertOrds[i]) + 1].id

\* C20: when results are needed makeMutationPrivate returns a list with one
\* entry for every table column, the column ID of the final value for every
\* public column and nothing (0) for every mutation column, and fails with
\* an AssertionFailure, returning no private, if a public column is given a
\* value by no role; when results are not needed it returns a private
\* without return columns whether or not every public column has a value.
ReturnColsResolved ==
    /\ [](pc = "done" /\ private.ReturnCols # <<>> =>
            /\ Len(private.ReturnCols) = DeletableColumnCount
            /\ \A i \in 0..(ColumnCount - 1) :
                ~Unreferenced(i) /\ private.ReturnCols[i + 1] = FinalValueColID(i)
            /\ \A i \in ColumnCount..(DeletableColumnCount - 1) :
                private.ReturnCols[i + 1] = 0)
    /\ [](pc = "error" /\ err = "AssertionFailure" =>
            /\ private = NoPrivate
            /\ \E i \in 0..(ColumnCount - 1) : Unreferenced(i))
    /\ [][(pc = "private") =>
            IF \E i \in 0..(ColumnCount - 1) : Unreferenced(i)
            THEN \/ pc' = "error" /\ err' = "AssertionFailure"
                 \/ pc' = "done" /\ private'.ReturnCols = <<>>
            ELSE pc' = "done"]_vars

\* Results are needed on a table with mutation columns: c0 is fetched, c1
\* updated, and a mutation column is fetched and yet not returned.
ReturnColsResolvedWitness ==
    /\ pc = "done"
    /\ DeletableColumnCount > ColumnCount
    /\ ColumnCount = 2
    /\ updateOrds[0] = Unset /\ updateOrds[1] # Unset /\ fetchOrds[1] # Unset
    /\ fetchOrds[ColumnCount] # Unset
    /\ Len(private.ReturnCols) = DeletableColumnCount
    /\ private.ReturnCols[1] = outScope[fetchOrds[0] + 1].id
    /\ private.ReturnCols[2] = outScope[updateOrds[1] + 1].id
    /\ private.ReturnCols[ColumnCount + 1] = 0

---------------------------------------------------------------------------
\* The assertion of makeMutationPrivate in the builds of the four statements.

\* The builder is past the input and the synthesized columns.
InputAndSynthesisDone == pc \in {"checks", "fk", "private", "done"}

\* C21: once the input is built and the default and computed columns are
\* synthesized, every non-mutation column of the table has a set role entry
\* (resolve returns a set ordinal for it), and makeMutationPrivate, with or
\* without results needed, never fails its assertion.
AssemblerAssertionUnreachable ==
    /\ [](InputAndSynthesisDone => \A i \in 0..(ColumnCount - 1) : ~Unreferenced(i))
    /\ [][(pc = "private") => pc' = "done"]_vars

\* An INSERT that needs results, names no column of a table with mutation
\* columns, and returns a synthesized value for every public column.
AssemblerAssertionUnreachableWitness ==
    /\ pc = "done"
    /\ opName = "insert"
    /\ DeletableColumnCount > ColumnCount
    /\ Len(private.ReturnCols) = DeletableColumnCount
    /\ \A i \in 0..(ColumnCount - 1) :
        /\ insertOrds[i] # Unset
        /\ outScope[insertOrds[i] + 1].kind \in {"default", "computed"}
        /\ private.ReturnCols[i + 1] = outScope[insertOrds[i] + 1].id

---------------------------------------------------------------------------
\* The role lists of the private.

\* Entry i of a list of the private; a nil list has every entry unset (0).
NodeEntry(list, i) == IF list = <<>> THEN 0 ELSE list[i + 1]

\* The list is the one of the role array ords: nil when no entry is set,
\* otherwise of the array's length with the column ID of every set entry.
IsRoleList(list, ords) ==
    /\ list = <<>> <=> \A i \in DOMAIN ords : ords[i] = Unset
    /\ list # <<>> => Len(list) = Cardinality(DOMAIN ords)
    /\ \A i \in DOMAIN ords :
        NodeEntry(list, i) = IF ords[i] = Unset THEN 0 ELSE outScope[ords[i] + 1].id

\* The lists by role the private holds.
NodeRoleLists ==
    {private.InsertCols, private.FetchCols, private.UpdateCols, private.CheckCols}

\* C22 as stated: the private carries a list for each of the insert, fetch,
\* update, upsert and check roles, entry i being the column ID of the
\* scope column of role entry i: so the column of every set upsert entry is
\* entry i of a role list of the private.
RoleListsWithUpsert ==
    pc = "done" =>
        /\ IsRoleList(private.InsertCols, insertOrds)
        /\ IsRoleList(private.FetchCols, fetchOrds)
        /\ IsRoleList(private.UpdateCols, updateOrds)
        /\ IsRoleList(private.CheckCols, checkOrds)
        /\ \A i \in TabOrds :
            upsertOrds[i] # Unset =>
                \E list \in NodeRoleLists :
                    NodeEntry(list, i) = outScope[upsertOrds[i] + 1].id

\* C22: the private carries for each of the insert, fetch, update and check
\* roles a list that is empty when no entry of the role is set and
\* otherwise has, at every table column ordinal (check: constraint
\* ordinal), the column ID of the scope column of that role entry, or 0
\* when the entry is unset; it has no list of the upsert role, and the
\* upsert column of a public table column is its return column when results
\* are needed.
RoleLists ==
    pc = "done" =>
        /\ IsRoleList(private.InsertCols, insertOrds)
        /\ IsRoleList(private.FetchCols, fetchOrds)
        /\ IsRoleList(private.UpdateCols, updateOrds)
        /\ IsRoleList(private.CheckCols, checkOrds)
        /\ \A i \in TabOrds :
            upsertOrds[i] # Unset /\ private.ReturnCols # <<>> /\ i < ColumnCount =>
                private.ReturnCols[i + 1] = outScope[upsertOrds[i] + 1].id

\* An UPSERT on a table with mutation columns: the delete-only column has no
\* insert value, so the insert list has an unset entry, and an upsert
\* column exists.
RoleListsWitness ==
    /\ pc = "done"
    /\ opName = "upsert"
    /\ private.UpdateCols # <<>>
    /\ private.FetchCols # <<>>
    /\ \E i \in TabOrds :
        /\ insertOrds[i] = Unset
        /\ Len(private.InsertCols) = DeletableColumnCount
        /\ private.InsertCols[i + 1] = 0
    /\ \E j \in TabOrds : upsertOrds[j] # Unset

---------------------------------------------------------------------------
\* The roles a statement sets.

\* The number of the insert, update and upsert roles set for column i.
WriteRolesSet(i) ==
    Cardinality({r \in {"insert", "update", "upsert"} :
        \/ r = "insert" /\ insertOrds[i] # Unset
        \/ r = "update" /\ updateOrds[i] # Unset
        \/ r = "upsert" /\ upsertOrds[i] # Unset})

\* C23 as stated: at completion at most one of the insert, update and
\* upsert roles is set for every table column; an INSERT sets insert roles
\* only, an UPDATE update and fetch roles only, a DELETE fetch roles only.
AtMostOneWriteRole ==
    pc = "done" =>
        /\ \A i \in TabOrds : WriteRolesSet(i) <= 1
        /\ opName = "insert" =>
            \A i \in TabOrds :
                fetchOrds[i] = Unset /\ updateOrds[i] = Unset /\ upsertOrds[i] = Unset
        /\ opName = "update" =>
            \A i \in TabOrds : insertOrds[i] = Unset /\ upsertOrds[i] = Unset
        /\ opName = "delete" =>
            \A i \in TabOrds :
                insertOrds[i] = Unset /\ updateOrds[i] = Unset /\ upsertOrds[i] = Unset

\* C23: an INSERT sets insert roles only, an UPDATE update and fetch roles
\* only and a DELETE fetch roles only, so at most one of the insert, update
\* and upsert roles is set for a column of theirs; an UPSERT sets the
\* upsert role only for a column whose insert role and whose update or
\* fetch role is set as well.
RolesByStatement ==
    /\ opName = "insert" =>
        \A i \in TabOrds :
            fetchOrds[i] = Unset /\ updateOrds[i] = Unset /\ upsertOrds[i] = Unset
    /\ opName = "update" =>
        \A i \in TabOrds : insertOrds[i] = Unset /\ upsertOrds[i] = Unset
    /\ opName = "delete" =>
        \A i \in TabOrds :
            insertOrds[i] = Unset /\ updateOrds[i] = Unset /\ upsertOrds[i] = Unset
    /\ opName \in {"insert", "update", "delete"} => \A i \in TabOrds : WriteRolesSet(i) <= 1
    /\ opName = "upsert" =>
        \A i \in TabOrds :
            upsertOrds[i] # Unset =>
                /\ insertOrds[i] # Unset
                /\ updateOrds[i] # Unset \/ fetchOrds[i] # Unset

\* A finished UPSERT with a column that has its insert, update and upsert
\* roles set, and another that is inserted and fetched but not updated.
RolesByStatementWitness ==
    /\ pc = "done"
    /\ opName = "upsert"
    /\ \E i \in TabOrds : WriteRolesSet(i) = 3
    /\ \E i \in TabOrds :
        /\ updateOrds[i] = Unset
        /\ insertOrds[i] # Unset /\ fetchOrds[i] # Unset /\ upsertOrds[i] # Unset

---------------------------------------------------------------------------
\* The names disambiguateColumns leaves.

\* The scope ordinal of the final value of table column i, or Unset.
FinalOrd(i) ==
    IF upsertOrds[i] # Unset THEN upsertOrds[i]
    ELSE IF updateOrds[i] # Unset THEN updateOrds[i]
    ELSE IF fetchOrds[i] # Unset THEN fetchOrds[i]
    ELSE insertOrds[i]

\* C24: addCheckConstraintCols on a table with check constraints leaves
\* every scope column that holds the final value of a table column as it
\* was, named after that table column, and clears the name of every other
\* column that was in the scope, so no two of them have the same name.
NamesDisambiguated ==
    [][(pc = "checks" /\ CheckCount # 0) =>
        /\ \A o \in DOMAIN outScope :
            IF \E i \in TabOrds : FinalOrd(i) = o - 1
            THEN /\ outScope'[o] = outScope[o]
                 /\ \A i \in TabOrds : FinalOrd(i) = o - 1 => outScope'[o].name = ColName(i)
            ELSE outScope'[o] = [outScope[o] EXCEPT !.name = NoName]
        /\ \A o1, o2 \in DOMAIN outScope :
            outScope'[o1].name # NoName /\ outScope'[o1].name = outScope'[o2].name
                => o1 = o2]_vars

\* After the check columns of an UPSERT: the inserted, the fetched and the
\* updated value of column c0 have lost their name and its upsert column
\* has kept it.
NamesDisambiguatedWitness ==
    /\ pc = "fk"
    /\ opName = "upsert"
    /\ CheckCount # 0
    /\ insertOrds[0] # Unset /\ fetchOrds[0] # Unset
    /\ updateOrds[0] # Unset /\ upsertOrds[0] # Unset
    /\ outScope[insertOrds[0] + 1].name = NoName
    /\ outScope[fetchOrds[0] + 1].name = NoName
    /\ outScope[updateOrds[0] + 1].name = NoName
    /\ outScope[upsertOrds[0] + 1].name = ColName(0)

---------------------------------------------------------------------------
\* The binding of the buffered input.

\* C25 as stated: the binding is reserved at most once, only when the first
\* check that reads the input is built and not before, and every check
\* reads the input through it.
BindingReservedLazily ==
    /\ [][withID' # withID => withID = 0]_vars
    /\ [](withID # 0 => Len(checks) > 0 \/ fkFallback \/ pc = "error")
    /\ [](\A k \in DOMAIN checks :
            /\ checks[k].input.with = withID
            /\ checks[k].input.op = "except" => checks[k].input.rightWith = withID)

\* C25: the binding is reserved at most once in a statement, by the
\* buildFKChecksFor* method when the table has a key the statement looks at
\* and the session's flag is on, before the method builds a check and
\* whether or not it builds one; every check of the statement, on both sides
\* of an Except, reads the input through that binding.
BindingReservedOnce ==
    /\ [][withID' # withID =>
            withID = 0 /\ pc = "fk" /\ optimizerFKs /\ RelevantFKs > 0]_vars
    /\ [][(pc = "fk" /\ optimizerFKs /\ RelevantFKs > 0) => withID' # 0]_vars
    /\ [](\A k \in DOMAIN checks :
            /\ withID # 0
            /\ checks[k].input.with = withID
            /\ checks[k].input.op = "except" => checks[k].input.rightWith = withID)

\* Two deletion checks of one statement, each on an Except whose two scans
\* read the statement's binding.
BindingReservedOnceWitness ==
    /\ pc = "done"
    /\ withID # 0
    /\ Len(checks) >= 2
    /\ \A k \in DOMAIN checks :
        /\ checks[k].input.op = "except"
        /\ checks[k].input.with = withID
        /\ checks[k].input.rightWith = withID

---------------------------------------------------------------------------
\* The items of the check list.

\* The item is the check of the foreign key fk, at ordinal ord of its side:
\* one key column and one equality filter for every column of the key, the
\* j-th key column reading the column ID ids[j] of the input.
ChecksKey(c, fk, ids) ==
    /\ Len(c.KeyCols) = Len(fk.cols)
    /\ Len(c.filters) = Len(fk.cols)
    /\ c.KeyCols = c.input.outCols
    /\ c.input.inCols = ids
    /\ \A j1, j2 \in DOMAIN c.KeyCols : c.KeyCols[j1] = c.KeyCols[j2] => j1 = j2
    /\ \A j1, j2 \in DOMAIN c.filters : c.filters[j1] = c.filters[j2] => j1 = j2
    /\ Range(c.KeyCols) \cap Range(c.filters) = {}

\* C26: every item of the check list has the statement's name and its
\* key's ordinal, and a key column and an equality filter for every column
\* of the key, in the key's order; an insertion check is an anti-join
\* marked outbound, from the mutated table to the referenced one, on the
\* final values of the key columns; a deletion check is a semi-join marked
\* inbound, from the origin table to the mutated one, on their fetched
\* values.  No later step changes a list that has an item.
CheckItems ==
    /\ [](\A k \in DOMAIN checks :
            LET c == checks[k] IN
            /\ c.OpName = opName
            /\ c.join \in {"anti", "semi"}
            /\ c.join = "anti" =>
                /\ c.FKOutbound
                /\ c.FKOrdinal \in 0..(OutboundForeignKeyCount - 1)
                /\ c.OriginTable = TargetTable
                /\ c.ReferencedTable = <<"referenced", c.FKOrdinal>>
                /\ ChecksKey(c, tab.outbound[c.FKOrdinal + 1],
                        [j \in DOMAIN tab.outbound[c.FKOrdinal + 1].cols |->
                            FinalValueColID(tab.outbound[c.FKOrdinal + 1].cols[j])])
            /\ c.join = "semi" =>
                /\ ~c.FKOutbound
                /\ c.FKOrdinal \in 0..(InboundForeignKeyCount - 1)
                /\ c.OriginTable = <<"origin", c.FKOrdinal>>
                /\ c.ReferencedTable = TargetTable
                /\ ChecksKey(c, tab.inbound[c.FKOrdinal + 1],
                        [j \in DOMAIN tab.inbound[c.FKOrdinal + 1].cols |->
                            outScope[fetchOrds[tab.inbound[c.FKOrdinal + 1].cols[j]] + 1].id]))
    /\ [][checks # <<>> => checks' = checks]_vars

\* An UPDATE that ends with an insertion check on a key of two columns and a
\* deletion check.
CheckItemsWitness ==
    /\ pc = "done"
    /\ opName = "update"
    /\ \E k \in DOMAIN checks : checks[k].join = "anti" /\ Len(checks[k].KeyCols) = 2
    /\ \E k \in DOMAIN checks : checks[k].join = "semi"

---------------------------------------------------------------------------
\* The fallback and the check list.

\* An inbound key that is not being added, has an updated column and an
\* ON UPDATE action other than RESTRICT and NO ACTION.
CascadingUpdate ==
    \E i \in DOMAIN tab.inbound :
        /\ ~tab.inbound[i].adding
        /\ \E j \in DOMAIN tab.inbound[i].cols : updateOrds[tab.inbound[i].cols[j]] # Unset
        /\ tab.inbound[i].updateAction \notin {"Restrict", "NoAction"}

\* An inbound key that is not being added and has an ON DELETE action other
\* than RESTRICT and NO ACTION.
CascadingDelete ==
    \E i \in DOMAIN tab.inbound :
        /\ ~tab.inbound[i].adding
        /\ tab.inbound[i].deleteAction \notin {"Restrict", "NoAction"}

\* C27: whenever the fallback flag is set the check list is empty; an
\* UPDATE or UPSERT whose buildFKChecksFor* method returns after it met an
\* inbound key with an updated column and a cascading ON UPDATE action, and
\* a DELETE that met an inbound key with a cascading ON DELETE action,
\* leave the flag set and no check, whatever checks the method had built.
FallbackEmptiesChecks ==
    /\ [](fkFallback => checks = <<>>)
    /\ [][(/\ pc = "fk" /\ optimizerFKs /\ pc' # "error"
           /\ \/ opName \in {"update", "upsert"} /\ CascadingUpdate
              \/ opName = "delete" /\ CascadingDelete)
            => fkFallback' /\ checks' = <<>>]_vars

\* An UPDATE of column c0, which an outbound key, a NO ACTION inbound key
\* and an ON UPDATE CASCADE inbound key have: the insertion check and the
\* first deletion check are dropped at the third key.
FallbackEmptiesChecksWitness ==
    /\ pc = "done"
    /\ opName = "update"
    /\ optimizerFKs
    /\ fkFallback
    /\ checks = <<>>
    /\ OutboundForeignKeyCount = 1 /\ InboundForeignKeyCount = 2
    /\ ~tab.outbound[1].adding /\ updateOrds[tab.outbound[1].cols[1]] # Unset
    /\ tab.inbound[1].updateAction = "NoAction" /\ ~tab.inbound[1].adding
    /\ updateOrds[tab.inbound[1].cols[1]] # Unset
    /\ tab.inbound[2].updateAction = "Cascade"

---------------------------------------------------------------------------
\* addSynthesizedCols on any role array with any addCol callback.

\* Tables whose last public column is computed, without and with mutation
\* columns.
SynthTables ==
    {MakeTable([i \in 1..MaxCols |-> IF i = MaxCols THEN ComputedCol ELSE PlainCol],
               m, 0, <<>>, <<>>) : m \in {0, MaxMutationCols}}

\* The builder of an UPSERT at a call of addSynthesizedCols: the input has
\* a column for every table column of specified, in schema order, and a
\* column with the update value of column 0 if updated.
BeforeSynth(t, specified, updated) ==
    LET pos(i) == Cardinality({j \in specified : j < i})
        n == Cardinality(specified)
        ordOf(k) == CHOOSE i \in specified : pos(i) = k - 1
    IN
    /\ opName = "upsert"
    /\ tab = t
    /\ pc = "synth"
    /\ err = "none"
    /\ outScope =
        [k \in 1..n |-> ScopeCol(Len(t.cols) + k, <<"col", ordOf(k)>>, "input", FALSE)]
            \o (IF updated
                THEN <<ScopeCol(Len(t.cols) + n + 1, <<"col", 0>>, "update", FALSE)>>
                ELSE <<>>)
    /\ nextColID = Len(t.cols) + n + 2
    /\ targetColList = [k \in 1..n |-> ordOf(k) + 1]
    /\ targetColSet = {i + 1 : i \in specified}
    /\ insertOrds = [i \in 0..(Len(t.cols) - 1) |-> IF i \in specified THEN pos(i) ELSE Unset]
    /\ fetchOrds = [i \in 0..(Len(t.cols) - 1) |-> Unset]
    /\ updateOrds =
        [i \in 0..(Len(t.cols) - 1) |-> IF updated /\ i = 0 THEN n ELSE Unset]
    /\ upsertOrds = [i \in 0..(Len(t.cols) - 1) |-> Unset]
    /\ checkOrds = <<>>
    /\ canaryColID = 0
    /\ extraAccessibleCols = <<>>
    /\ distinctOn = {}
    /\ optimizerFKs = TRUE
    /\ checks = <<>>
    /\ fkFallback = FALSE
    /\ withID = 0
    /\ private = NoPrivate
    /\ resolved = <<>>
    /\ inputRows = {}
    /\ checkedRows = <<>>
    /\ inRows = <<>>
    /\ outRows = <<>>
    /\ projections = 0
    /\ addCol = {}
    /\ otherRows = <<>>
    /\ reportedRows = <<>>

InitSynth ==
    \E t \in SynthTables :
        \E specified \in SUBSET (0..(Len(t.cols) - 1)), updated \in BOOLEAN :
            BeforeSynth(t, specified, updated)

\* One call of addSynthesizedCols, on mb.insertOrds or on mb.updateOrds, with
\* a callback that approves the columns of approve.
SynthesizePass ==
    /\ pc = "synth"
    /\ \E approve \in SUBSET TabOrds, forUpdate \in BOOLEAN :
        LET r == addSynthesizedCols(IF forUpdate THEN updateOrds ELSE insertOrds, approve)
        IN
        /\ outScope' = r.cols
        /\ nextColID' = nextColID + Len(r.cols) - Len(outScope)
        /\ targetColList' = r.list
        /\ targetColSet' = r.set
        /\ insertOrds' = IF forUpdate THEN insertOrds ELSE r.ords
        /\ updateOrds' = IF forUpdate THEN r.ords ELSE updateOrds
        /\ projections' = projections + r.layers
        /\ addCol' = approve
        /\ pc' = IF forUpdate THEN "synthesizedUpdate" ELSE "synthesizedInsert"
    /\ UNCHANGED <<catalogVars, err, fetchOrds, upsertOrds, checkOrds,
                   canaryColID, extraAccessibleCols, distinctOn, fkVars,
                   private, resolved, inputRows, checkedRows, valuesVars, joinVars>>

NextSynth == SynthesizePass

SpecSynth == InitSynth /\ [][NextSynth]_vars

\* The writable columns whose entry in ords is unset and which the callback
\* approves.
Qualifying(ords, approve) ==
    {i \in 0..(WritableColumnCount - 1) : ords[i] = Unset /\ i \in approve}

\* C28: a call of addSynthesizedCols sets, in the role array it is given,
\* the entries of the writable columns that were unset and that the callback
\* approves, and no other: to the ordinals after the end of the scope, in
\* schema order.  The other entries of the array, set, rejected or of a
\* delete-only column, the other role arrays and the columns already in the
\* scope are unchanged, and the call constructs one Project operator for
\* all the columns it adds, none when it adds no column.
SynthesizesQualifying ==
    [][(pc = "synth") =>
        LET forUpdate == pc' = "synthesizedUpdate"
            old == IF forUpdate THEN updateOrds ELSE insertOrds
            new == IF forUpdate THEN updateOrds' ELSE insertOrds'
            q == Qualifying(old, addCol')
        IN
        /\ \A i \in TabOrds \ q : new[i] = old[i]
        /\ \A i \in q : new[i] = Len(outScope) + Cardinality({j \in q : j < i})
        /\ Len(outScope') = Len(outScope) + Cardinality(q)
        /\ \A o \in DOMAIN outScope : outScope'[o] = outScope[o]
        /\ \A i \in q : outScope'[new[i] + 1].name = ColName(i)
        /\ IF forUpdate THEN insertOrds' = insertOrds ELSE updateOrds' = updateOrds
        /\ fetchOrds' = fetchOrds /\ upsertOrds' = upsertOrds /\ checkOrds' = checkOrds
        /\ projections' = projections + (IF q = {} THEN 0 ELSE 1)]_vars

\* After a call on the insert array of a table with mutation columns: the
\* entry of column 0 was set and is kept though the callback approves the
\* column, column 1 is rejected, the write-only column is synthesized and
\* the delete-only column, approved, has no value; one Project operator.
SynthesizesQualifyingWitness ==
    /\ pc = "synthesizedInsert"
    /\ DeletableColumnCount > WritableColumnCount
    /\ WritableColumnCount > ColumnCount
    /\ addCol = TabOrds \ {1}
    /\ insertOrds[0] = 0
    /\ insertOrds[1] = Unset
    /\ insertOrds[ColumnCount] = Len(outScope) - 1
    /\ outScope[Len(outScope)].kind = "default"
    /\ \A i \in WritableColumnCount..(DeletableColumnCount - 1) : insertOrds[i] = Unset
    /\ projections = 1

---------------------------------------------------------------------------
\* The role ordinals across the projections.

\* The set entries of the four column role arrays.
ColumnRoleOrds ==
    UNION {{ords[i] : i \in {j \in DOMAIN ords : ords[j] # Unset}} :
           ords \in {insertOrds, fetchOrds, updateOrds, upsertOrds}}

\* The set entries of checkOrds.
CheckRoleOrds == {checkOrds[i] : i \in {j \in DOMAIN checkOrds : checkOrds[j] # Unset}}

\* The scope column b is the column a with its value rounded.
Rounded(a, b) ==
    /\ b.kind = "round"
    /\ b.name = a.name
    /\ b.notNull = a.notNull
    /\ b.rounds = a.rounds + 1

\* C29: every set entry of every role array is an ordinal of the current
\* scope, and the ordinals of the check columns are above those of all the
\* other roles; addSynthesizedCols leaves the columns of the scope as they
\* are and appends its own, roundDecimalValues leaves them or rounds them in
\* place and adds none, addCheckConstraintCols leaves them or clears their
\* names and appends its own, and none of the three changes a set entry of
\* a role array.
OrdinalsStayValid ==
    /\ [](\A o \in ColumnRoleOrds \cup CheckRoleOrds : o >= 0 /\ o < Len(outScope))
    /\ [](\A c \in CheckRoleOrds : \A o \in ColumnRoleOrds : c > o)
    /\ [][(pc \in {"insDefaults", "insComputed", "updComputed"}) =>
            /\ Len(outScope') >= Len(outScope)
            /\ \A o \in DOMAIN outScope : outScope'[o] = outScope[o]]_vars
    /\ [][(pc \in {"insRound", "insRoundComputed", "updRound", "updRoundComputed"}) =>
            /\ Len(outScope') = Len(outScope)
            /\ \A o \in DOMAIN outScope :
                outScope'[o] = outScope[o] \/ Rounded(outScope[o], outScope'[o])]_vars
    /\ [][(pc = "checks") =>
            /\ Len(outScope') = Len(outScope) + CheckCount
            /\ \A o \in DOMAIN outScope :
                \/ outScope'[o] = outScope[o]
                \/ outScope'[o] = [outScope[o] EXCEPT !.name = NoName]
            /\ \A o \in CheckRoleOrds' : o >= Len(outScope)]_vars
    /\ [][(pc \in {"insDefaults", "insComputed", "updComputed", "insRound",
                   "insRoundComputed", "updRound", "updRoundComputed", "checks"}) =>
            /\ \A i \in TabOrds :
                /\ insertOrds[i] # Unset => insertOrds'[i] = insertOrds[i]
                /\ fetchOrds[i] # Unset => fetchOrds'[i] = fetchOrds[i]
                /\ updateOrds[i] # Unset => updateOrds'[i] = updateOrds[i]
                /\ upsertOrds[i] # Unset => upsertOrds'[i] = upsertOrds[i]]_vars

\* An INSERT into a table with a DECIMAL column and check constraints, after
\* addCheckConstraintCols: the scope holds a rounded column, a synthesized
\* column after it and the check columns last.
OrdinalsStayValidWitness ==
    /\ pc = "fk"
    /\ opName = "insert"
    /\ CheckCount # 0
    /\ projections >= 3
    /\ \E i, j \in TabOrds :
        /\ insertOrds[i] # Unset /\ outScope[insertOrds[i] + 1].kind = "round"
        /\ insertOrds[j] # Unset /\ outScope[insertOrds[j] + 1].kind = "default"
        /\ insertOrds[i] < insertOrds[j]
    /\ \A c \in CheckRoleOrds : c >= Len(outScope) - CheckCount

---------------------------------------------------------------------------
\* Execution of the joins of the deletion checks.

\* Keys of the referenced table: column 0, or column 0 and the last column.
JoinKeys == {<<0>>, <<0, MaxCols - 1>>}

\* An inbound key with its match method and NO ACTION.
JoinInbound(k, m) ==
    [cols |-> k, match |-> m, deleteAction |-> "NoAction",
     updateAction |-> "NoAction", adding |-> FALSE]

\* DELETE, UPDATE t SET (the key columns) and INSERT ... ON CONFLICT DO
\* UPDATE SET (the key columns) on a table with one inbound key.
JoinStatements ==
    {[op |-> op, t |-> MakeTable(PlainLayout, 0, 0, <<>>, <<JoinInbound(k, m)>>),
      nn |-> FALSE, set |-> IF op = "delete" THEN <<>> ELSE k] :
        op \in {"delete", "update", "upsert"}, k \in JoinKeys, m \in MatchMethods}

InitJoin == \E st \in JoinStatements : BeforeFKChecks(st)

\* The comparison that takes two nulls for equal.
NullSafeEq(a, b) == a = b

\* ConstructEq as a join filter: the row pair passes when the comparison is
\* true, which it is not when an operand is null.
SqlEq(a, b) == a # Null /\ b # Null /\ a = b

\* The rows of left the join of check c returns, right being the rows of
\* the scan of the other table: the j-th filter compares the j-th key column
\* with the j-th column of the scan.
EvalJoin(c, left, right) ==
    LET matches(t) == \E s \in right : \A j \in DOMAIN c.filters : SqlEq(t[j], s[j]) IN
    IF c.join = "semi" THEN {t \in left : matches(t)}
    ELSE {t \in left : ~matches(t)}

\* The other table holds no row or one row, of any values and nulls.
OtherRowSets(c) == {{}} \cup {{s} : s \in [DOMAIN c.filters -> Values]}

\* The input holds no row, one row or two rows.
InputRowPairs == {{}} \cup {{a, b} : a, b \in Rows}

\* The statement runs: every check's input is computed from the buffered
\* rows and joined with the other table.
RunFKJoins ==
    /\ pc = "private"
    /\ checks # <<>>
    /\ \E rs \in InputRowPairs :
        \E other \in {f \in [DOMAIN checks -> UNION {OtherRowSets(checks[i]) : i \in DOMAIN checks}] :
                        \A i \in DOMAIN checks : f[i] \in OtherRowSets(checks[i])} :
            /\ inputRows' = rs
            /\ otherRows' = other
            /\ checkedRows' = [i \in DOMAIN checks |-> EvalInput(checks[i].input, rs)]
            /\ reportedRows' =
                [i \in DOMAIN checks |->
                    EvalJoin(checks[i], EvalInput(checks[i].input, rs), other[i])]
    /\ pc' = "joined"
    /\ UNCHANGED <<catalogVars, err, outScope, nextColID, targetVars, roleVars,
                   canaryColID, extraAccessibleCols, distinctOn, fkVars, private,
                   resolved, valuesVars, layerVars>>

NextJoin ==
    \/ BuildFKChecksForDelete
    \/ BuildFKChecksForUpdate
    \/ BuildFKChecksForUpsert
    \/ RunFKJoins

SpecJoin == InitJoin /\ [][NextJoin]_vars

\* C30: a deletion check of DELETE, UPDATE or UPSERT never returns the old
\* key of an input row when a column of that key is null, whatever the
\* referencing table holds and whether the key is MATCH SIMPLE or MATCH
\* FULL; so not the all-null fetched key of an UPSERT row that is inserted.
NullKeysNeverReported ==
    pc = "joined" =>
        \A i \in DOMAIN checks :
            ~checks[i].FKOutbound =>
                /\ \A r \in inputRows :
                    (\E k \in DOMAIN CheckedKey(i).cols : OldValues(i, r)[k] = Null)
                        => OldValues(i, r) \notin reportedRows[i]
                /\ \A t \in reportedRows[i] : \A k \in DOMAIN t : t[k] # Null

\* An UPSERT on a table with a MATCH FULL inbound key of two columns: one
\* row is inserted (its fetched key is all null), the other had the key
\* (1, null); both reach the semi-join, the referencing table holds
\* (1, null), and the join returns no row.
NullKeysNeverReportedWitness ==
    /\ pc = "joined"
    /\ opName = "upsert"
    /\ CheckedKey(1).match = "FULL"
    /\ {OldValues(1, r) : r \in inputRows} = {<<Null, Null>>, <<1, Null>>}
    /\ checkedRows[1] = {<<Null, Null>>, <<1, Null>>}
    /\ otherRows[1] = {<<1, Null>>}
    /\ reportedRows[1] = {}
====
